---- MODULE Spec2Model ----
(***************************************************************************)
(* Provisioning-and-deployment orchestration of the PaaS platform:        *)
(* the deploy flow (POST /deploy), deletion (DELETE /deployments/<id>),   *)
(* the Proxmox sync import and the infrastructure identifier allocator,   *)
(* modelled from backend/api/routes.py, backend/api/terraform_manager.py  *)
(* and backend/models/deployment.py.                                      *)
(***************************************************************************)
EXTENDS Integers, Sequences, FiniteSets, TLC

VARIABLES
    db,         \* the deployments table: a sequence of rows, a row's id is its index
    flow,       \* the deploy requests: one record of handler-local state per request
    del,        \* the delete requests: one record of handler-local state per worker
    varfile,    \* deployment names whose state directory holds terraform.tfvars.json
    tfstate,    \* per workspace (deployment name): the vmid of the resource it manages
    pve,        \* the instances on the Proxmox node
    allocIn,    \* the allocator's inputs when it is exercised on its own
    allocOut,   \* the allocator's outcome when it is exercised on its own
    race,       \* two deploy requests served at the same time: their handler-local state
    ws,         \* the engine's workspaces when apply and destroy calls run at the same time
    plan,       \* one call of apply, from its plan to the result of its plan phase
    resolver,   \* one call of _get_ip_from_proxmox
    ssh,        \* one call of deploy_application: the connection and the commands
    build,      \* one call of _build_deployment_commands
    san,        \* one name and what the sanitizations make of it
    wait,       \* one deploy flow seen through the waits of its stages
    dst,        \* one call of destroy: the engine commands it ran and the directories
    keys,       \* the two files of the managed SSH keypair
    store,      \* the record store as the Deployment model's own operations see it
    parsed,     \* one URL and what parse_github_url makes of it
    stages,     \* one call of apply: the stages it ran and its result
    addr,       \* one call of apply from the engine's outputs to its result
    wsl,        \* one call of apply at its workspace step, and the engine's workspaces
    inflight    \* the halves of the keypair the requests in flight have read

\* the variables of the components that are exercised on their own
others == <<race, ws, plan, resolver, ssh, build, san>>
later == <<wait, dst, keys, store, parsed, stages>>
final == <<addr, wsl, inflight>>

vars == <<db, flow, del, varfile, tfstate, pve, allocIn, allocOut, others, later, final>>

-----------------------------------------------------------------------------
(* Bounds of the model *)

\* the calls of _ensure_ssh_keypair one caller makes
MaxEnsureCalls == 2
\* the Deployment objects constructed in one session
MaxObjects == 3
\* the longest repository name of a URL given to parse_github_url
MaxRepoLen == 3
\* the longest name given to a sanitization
MaxNameLen == 3
\* the longest command list the remote executor is given
MaxCommands == 3

\* rows of the deployments table: the deploy requests accepted and the
\* instances imported, over the whole run
MaxRecords == 1
\* rows of the table when a name is deployed a second time, or a deploy
\* request is served next to a sync
MaxRows == 2
\* largest value random.randint takes in the orchestration specification
MaxPick == 100
\* how many of the lowest ids the used sets of the allocator specification range over
AllocSpan == 2

-----------------------------------------------------------------------------
(* Values *)

\* a null ip_address, error_message, deployed_at or deleted_at
None == "None"
\* a null vm_id
NoVmId == 0
\* datetime.utcnow(), the instant abstracted
UtcNow == "utcnow"

\* DeploymentStatus
PENDING == "pending"
PROVISIONING == "provisioning"
DEPLOYING == "deploying"
RUNNING == "running"
FAILED == "failed"
STOPPED == "stopped"
DELETED == "deleted"
DeploymentStatus == {PENDING, PROVISIONING, DEPLOYING, RUNNING, FAILED, STOPPED, DELETED}

-----------------------------------------------------------------------------
(* The identifier allocator: TerraformManager._generate_vm_id *)

MinVmId == 100
MaxVmId == 999
MaxAttempts == 100
VmIdRange == MinVmId..MaxVmId

\* the values random.randint(lo, hi) can return
RandInt(lo, hi) == lo..hi

\* Deployment.get_used_vm_ids: the vm ids of the rows that are not deleted
GetUsedVmIds(rows) ==
    { rows[i].vm_id : i \in { j \in DOMAIN rows :
                                /\ rows[j].vm_id # NoVmId
                                /\ rows[j].status # DELETED } }

\* TerraformManager._get_proxmox_vm_ids on a view [mode, qemu, lxc] of the node:
\* a failed connection gives the empty set, a failed listing is skipped
GetProxmoxVmIds(view) ==
    IF view.mode = "connect_fail" THEN {}
    ELSE (IF view.mode = "qemu_fail" THEN {} ELSE view.qemu)
         \cup (IF view.mode = "lxc_fail" THEN {} ELSE view.lxc)

\* a union that forgets the ids of the table when the node cannot be reached
UsedIdsNodeOnly(db_vm_ids, view) ==
    IF view.mode = "connect_fail" THEN {} ELSE db_vm_ids \cup GetProxmoxVmIds(view)

\* used_ids = db_vm_ids.union(proxmox_vm_ids)
UsedIds(db_vm_ids, view) == db_vm_ids \cup GetProxmoxVmIds(view)

\* a loop that returns its pick without the test against used_ids
RandomPhaseUnchecked(used, picks, n) ==
    IF n = 0 THEN {NoVmId} ELSE picks

\* for _ in range(n): vm_id = random.randint(...); return it when it is not used.
\* The outcomes of the loop: any pick that is not used can be returned, and the
\* loop falls through (NoVmId) when each of the n picks can have hit a used id
RandomPhase(used, picks, n) ==
    IF n = 0 THEN {NoVmId}
    ELSE (picks \ used) \cup (IF picks \cap used # {} THEN {NoVmId} ELSE {})

\* a scan over range(100, 999), which stops one id short
SequentialScanShort(used) ==
    LET free == (MinVmId..(MaxVmId - 1)) \ used
    IN  IF free = {} THEN NoVmId
        ELSE CHOOSE v \in free : \A w \in free : v <= w

\* for vm_id in range(100, 1000): the first id not in used_ids, NoVmId when none
SequentialScan(used) ==
    LET free == VmIdRange \ used
    IN  IF free = {} THEN NoVmId
        ELSE CHOOSE v \in free : \A w \in free : v <= w

\* the outcomes of _generate_vm_id when random.randint draws from picks:
\* [vm_id, via], via "exhausted" standing for the exception of line 861
GenerateVmId(used, picks) ==
    LET r == RandomPhase(used, picks, MaxAttempts)
        s == SequentialScan(used)
    IN  { [vm_id |-> v, via |-> "random"] : v \in r \ {NoVmId} }
        \cup (IF NoVmId \in r
              THEN {[vm_id |-> s, via |-> IF s = NoVmId THEN "exhausted" ELSE "sequential"]}
              ELSE {})

-----------------------------------------------------------------------------
(* The allocator exercised on its own *)

NotCalled == [vm_id |-> NoVmId, via |-> "not_called"]

\* the ids the used sets are built from: the lowest ids and the highest id
Probe == (MinVmId..(MinVmId + AllocSpan - 1)) \cup {MaxVmId}
\* the ids of the rows that are not deleted: small sets, and sets that leave
\* only a few ids of the range free
UsedFamily == (SUBSET Probe) \cup { VmIdRange \ s : s \in SUBSET Probe }
\* the ids of the rows that are deleted
DeletedFamily == { {}, {MinVmId} }
\* the vmids of the two listings of the node; a vmid can lie outside the range
QemuFamily == { {}, {MinVmId + 1, MaxVmId + 1} }
LxcFamily == { {}, {MinVmId} }
ViewModes == {"ok", "connect_fail", "qemu_fail", "lxc_fail"}

\* a table for the inputs: per id of the range a row that is not deleted and a
\* row that is deleted, each carrying the id or a null vm_id
AllocRows(in) ==
    LET n == MaxVmId - MinVmId + 1
    IN  [k \in 1..(2 * n) |->
            LET v == MinVmId + ((k - 1) % n)
            IN  IF k <= n
                THEN [vm_id |-> IF v \in in.db THEN v ELSE NoVmId, status |-> RUNNING]
                ELSE [vm_id |-> IF v \in in.deleted THEN v ELSE NoVmId, status |-> DELETED]]

AllocInit ==
    /\ allocIn \in [db : UsedFamily, deleted : DeletedFamily,
                    qemu : QemuFamily, lxc : LxcFamily, mode : ViewModes]
    /\ allocOut = NotCalled

\* lines 839-845 and the body of _generate_vm_id on these inputs
AllocCall ==
    /\ allocOut = NotCalled
    /\ allocOut' \in GenerateVmId(UsedIds(GetUsedVmIds(AllocRows(allocIn)), allocIn),
                                  RandInt(MinVmId, MaxVmId))
    /\ UNCHANGED <<db, flow, del, varfile, tfstate, pve, allocIn, others, later, final>>

-----------------------------------------------------------------------------
(* The deployments table *)

\* deployment names a valid request can carry (validate_deployment_name)
Names == {"app-a"}
\* the deployment_type of the requests, and that of the instances created outside
RequestTypes == {"lxc"}
\* Config.SUPPORTED_FRAMEWORKS: the language and the port of each framework
SUPPORTED_FRAMEWORKS ==
    [django  |-> [language |-> "python", port |-> 8000],
     laravel |-> [language |-> "php",    port |-> 8000],
     express |-> [language |-> "nodejs", port |-> 3000],
     flask   |-> [language |-> "python", port |-> 5000],
     fastapi |-> [language |-> "python", port |-> 8000],
     react   |-> [language |-> "nodejs", port |-> 3000],
     vuejs   |-> [language |-> "nodejs", port |-> 8080],
     nextjs  |-> [language |-> "nodejs", port |-> 3000]]
\* the framework of the requests
RequestFrameworks == {"flask"}
ExternalTypes == {"vm"}
\* the github_url of a validated request, and the one the sync import writes
RepoUrl == "https://github.com/u/r"
ImportedUrl == "imported-from-proxmox"
\* an address the engine or the node reports
Address == "192.168.100.10"

\* Deployment.__init__: the columns that are not arguments start null
NewDeployment(name, dtype, url, status) ==
    [name |-> name, deployment_type |-> dtype, github_url |-> url,
     status |-> status, ip_address |-> None, vm_id |-> NoVmId,
     error_message |-> <<>>, deployed_at |-> None, deleted_at |-> None]

\* Deployment.get_by_id
Exists(id) == id \in DOMAIN db

\* assignments to columns of row id followed by db.session.commit()
Commit(id, fields) ==
    [db EXCEPT ![id] = [c \in DOMAIN db[id] |->
                            IF c \in DOMAIN fields THEN fields[c] ELSE db[id][c]]]

-----------------------------------------------------------------------------
(* The node and the infra-as-code engine *)

PveIds == { i.vmid : i \in pve }
\* proxmox.nodes(node).qemu.get() and .lxc.get(): the vmids of each listing
NodeView(mode) ==
    [mode |-> mode,
     qemu |-> { i.vmid : i \in { j \in pve : j.type = "vm" } },
     lxc  |-> { i.vmid : i \in { j \in pve : j.type = "lxc" } }]

\* the node after the engine created instance vmid in workspace name,
\* replacing the resource the workspace managed before
NodeAfterApply(name, dtype, vmid) ==
    { i \in pve : i.vmid # tfstate[name] }
        \cup {[vmid |-> vmid, type |-> dtype, name |-> name, status |-> "running"]}

\* the node after the engine destroyed what workspace name manages
NodeAfterDestroy(name) == { i \in pve : i.vmid # tfstate[name] }

\* TerraformManager.destroy(name): the result, given the exit status of the
\* workspace select and of the destroy command
Destroy(name, select_ok, destroy_ok) ==
    IF name \notin varfile
        THEN [success |-> FALSE, error |-> <<"No Terraform state found">>]
    ELSE IF ~select_ok
        THEN [success |-> FALSE, error |-> <<"Failed to select workspace">>]
    ELSE IF ~destroy_ok
        THEN [success |-> FALSE, error |-> <<"Terraform destroy failed">>]
    ELSE [success |-> TRUE, error |-> <<>>]

-----------------------------------------------------------------------------
(* The deploy flow: routes.deploy_application *)

\* the workers serving POST /deploy: a worker serves one request after another
Flows == {"w1"}
NoResult == [success |-> FALSE, ip_address |-> None, vm_id |-> NoVmId, error |-> <<>>,
             access_url |-> <<>>]
NoResponse == [success |-> FALSE, code |-> 0, error |-> <<>>]
IdleFlow ==
    [pc |-> "idle", rec |-> 0, name |-> "", deployment_type |-> "", framework |-> "",
     vm_id |-> NoVmId, result |-> NoResult, deploy_result |-> NoResult,
     exc |-> <<>>, resp |-> NoResponse,
     trace |-> <<>>]

\* the values random.randint takes in this specification
FlowPicks == RandInt(MinVmId, MaxPick)

\* the events of a request, in order: the statuses it committed and the
\* operations of the TerraformManager it invoked
Has(trace, ev) == \E k \in DOMAIN trace : trace[k] = ev
Count(trace, ev) == Cardinality({ k \in DOMAIN trace : trace[k] = ev })
Pos(trace, ev) == IF Has(trace, ev)
                  THEN CHOOSE k \in DOMAIN trace :
                          trace[k] = ev /\ \A j \in DOMAIN trace : trace[j] = ev => k <= j
                  ELSE 0

\* an exception that carries the stage and not the result's error
WrapDropping(prefix, error) == <<prefix>>

\* str(e) of the exception the handler raises around a failed result
Wrap(prefix, error) == <<prefix>> \o error

\* the JSON bodies of the requests: none, or the four required fields, each
\* valid, invalid or missing ("" stands for a field that is missing or empty)
NoBody == [present |-> FALSE, name |-> "", deployment_type |-> "", framework |-> "",
           github_url |-> ""]
RequestBodies ==
    {NoBody} \cup
    [present : {TRUE},
     name : Names \cup {"", "ab"},
     deployment_type : RequestTypes \cup {"docker"},
     framework : RequestFrameworks \cup {"", "rails"},
     github_url : {RepoUrl, "https://gitlab.com/u/r"}]

\* a validation that accepts every body
ValidateDeploymentRequestLax(data) == << >>

\* validators.validate_deployment_request: the errors of a body; the names
\* that match ^[a-zA-Z0-9_-]{3,50}$ are those of Names, and RepoUrl is the
\* URL that matches the GitHub pattern
ValidateDeploymentRequest(data) ==
    LET required == <<"deployment_type", "framework", "github_url", "name">>
        missing == { k \in DOMAIN required : data[required[k]] = "" }
        Check(bad, error) == IF bad THEN <<error>> ELSE << >>
    IN  IF missing # {}
        THEN [k \in 1..Cardinality(missing) |-> "Missing required field"]
        ELSE Check(data.deployment_type \notin {"vm", "lxc"}, "Invalid deployment_type")
             \o Check(data.framework \notin DOMAIN SUPPORTED_FRAMEWORKS, "Unsupported framework")
             \o Check(data.github_url # RepoUrl, "Invalid GitHub URL")
             \o Check(data.name \notin Names, "Invalid deployment name")

\* lines 64-80: an empty or invalid body is answered 400 before anything else
\* lines 91-103: the row is created PENDING and committed
DeployRequestWithin(f, cap) ==
    /\ flow[f].pc = "idle"
    /\ \E data \in RequestBodies :
          IF ~data.present \/ ValidateDeploymentRequest(data) # << >>
          THEN /\ flow' = [flow EXCEPT ![f] = [IdleFlow EXCEPT !.pc = "done",
                              !.resp = [success |-> FALSE, code |-> 400,
                                        error |-> IF ~data.present
                                                  THEN <<"No data provided">>
                                                  ELSE <<"validation errors">>]]]
               /\ UNCHANGED db
          ELSE /\ Len(db) < cap
               /\ db' = Append(db, NewDeployment(data.name, data.deployment_type,
                                                 data.github_url, PENDING))
               /\ flow' = [flow EXCEPT ![f] = [IdleFlow EXCEPT !.pc = "pending",
                               !.rec = Len(db) + 1,
                               !.name = data.name,
                               !.framework = data.framework,
                               !.deployment_type = data.deployment_type,
                               !.trace = <<PENDING>>]]
    /\ UNCHANGED <<del, varfile, tfstate, pve, allocIn, allocOut, others, later, final>>

\* a request, on a table of at most MaxRecords rows
DeployRequest(f) == DeployRequestWithin(f, MaxRecords)

\* a handler that leaves the commit of PROVISIONING for later
FlowGenerateConfigUncommitted(f) ==
    /\ flow[f].pc = "pending"
    /\ \E o \in GenerateVmId(UsedIds(GetUsedVmIds(db), NodeView("ok")), FlowPicks) :
          /\ o.via # "exhausted"
          /\ flow' = [flow EXCEPT ![f].pc = "provisioning",
                         ![f].vm_id = o.vm_id,
                         ![f].trace = Append(@, "generate_config")]
    /\ UNCHANGED <<db, del, varfile, tfstate, pve, allocIn, allocOut, others, later, final>>

\* lines 113-123: generate_config allocates the id (and can raise); then the
\* row is committed PROVISIONING
FlowGenerateConfig(f) ==
    /\ flow[f].pc = "pending"
    /\ \E mode \in ViewModes, keypair_ok \in BOOLEAN :
       \E o \in GenerateVmId(UsedIds(GetUsedVmIds(db), NodeView(mode)), FlowPicks) :
          IF o.via = "exhausted" \/ ~keypair_ok
          THEN /\ flow' = [flow EXCEPT ![f].pc = "raised",
                              ![f].exc = IF o.via = "exhausted"
                                         THEN <<"No available VM IDs in range 100-999">>
                                         ELSE <<"keypair error">>,
                              ![f].trace = Append(@, "generate_config")]
               /\ UNCHANGED db
          ELSE /\ flow' = [flow EXCEPT ![f].pc = "provisioning",
                              ![f].vm_id = o.vm_id,
                              ![f].trace = @ \o <<"generate_config", PROVISIONING>>]
               /\ db' = Commit(flow[f].rec, [status |-> PROVISIONING])
    /\ UNCHANGED <<del, varfile, tfstate, pve, allocIn, allocOut, others, later, final>>

\* line 125, terraform_manager.py lines 183-215: apply is entered; init and
\* the workspace step can fail, otherwise the variable file is written
FlowApplyInvoke(f) ==
    /\ flow[f].pc = "provisioning"
    /\ \E early \in {"ok", "Terraform init failed"} :
          IF early = "ok"
          THEN /\ varfile' = varfile \cup {flow[f].name}
               /\ flow' = [flow EXCEPT ![f].pc = "applying",
                              ![f].trace = Append(@, "apply")]
          ELSE /\ varfile' = varfile
               /\ flow' = [flow EXCEPT ![f].pc = "applied",
                              ![f].result = [NoResult EXCEPT !.error = <<early>>],
                              ![f].trace = Append(@, "apply")]
    /\ UNCHANGED <<db, del, tfstate, pve, allocIn, allocOut, others, later, final>>

\* terraform_manager.py lines 220-303: plan, apply, outputs and the address;
\* apply creates the instance, and the address can still be unresolved after
FlowApplyFinish(f) ==
    /\ flow[f].pc = "applying"
    /\ LET name == flow[f].name
           vmid == flow[f].vm_id
           created == /\ tfstate' = [tfstate EXCEPT ![name] = vmid]
                      /\ pve' = NodeAfterApply(name, flow[f].deployment_type, vmid)
       IN  \/ /\ vmid \notin PveIds \ {tfstate[name]}
              /\ created
              /\ flow' = [flow EXCEPT ![f].pc = "applied",
                             ![f].result = [NoResult EXCEPT !.success = TRUE,
                                               !.ip_address = Address, !.vm_id = vmid]]
           \/ /\ vmid \notin PveIds \ {tfstate[name]}
              /\ created
              /\ flow' = [flow EXCEPT ![f].pc = "applied",
                             ![f].result = [NoResult EXCEPT
                                 !.error = <<"Could not retrieve IP address">>]]
           \/ /\ flow' = [flow EXCEPT ![f].pc = "applied",
                             ![f].result = [NoResult EXCEPT
                                 !.error = <<"Terraform apply failed">>]]
              /\ UNCHANGED <<tfstate, pve>>
    /\ UNCHANGED <<db, del, varfile, allocIn, allocOut, others, later, final>>

\* a handler that takes the work for done when apply succeeded
StatusAfterApplySkipping(result) == IF result.success THEN RUNNING ELSE FAILED

\* a handler that goes on whatever apply returned
StatusAfterApplyIgnoring(result) == DEPLOYING

\* lines 127-128 and 170-171: the status a returned apply leads to
StatusAfterApply(result) == IF result.success THEN DEPLOYING ELSE FAILED

\* lines 144-145 and 164-165: the status a returned deploy_application leads to
StatusAfterDeploy(deploy_result) == IF deploy_result.success THEN RUNNING ELSE FAILED

\* lines 127-131 and 170-174: DEPLOYING with the address and the id is
\* committed, or FAILED with the error, and then the exception is raised
FlowAfterApply(f) ==
    /\ flow[f].pc = "applied"
    /\ LET status == StatusAfterApply(flow[f].result)
       IN  IF status # FAILED
           THEN /\ db' = Commit(flow[f].rec, [status |-> status,
                                              ip_address |-> flow[f].result.ip_address,
                                              vm_id |-> flow[f].result.vm_id])
                /\ flow' = [flow EXCEPT ![f].pc = "deploying",
                               ![f].trace = Append(@, status)]
           ELSE /\ db' = Commit(flow[f].rec, [status |-> FAILED,
                                              error_message |-> flow[f].result.error])
                /\ flow' = [flow EXCEPT ![f].pc = "raised",
                               ![f].exc = Wrap("Infrastructure provisioning failed: ",
                                               flow[f].result.error),
                               ![f].trace = Append(@, FAILED)]
    /\ UNCHANGED <<del, varfile, tfstate, pve, allocIn, allocOut, others, later, final>>

\* a result whose URL carries one port for every framework
AccessUrlFixedPort(ip_address, framework) == <<"http://", ip_address, ":", 8000>>

\* terraform_manager.py line 492: f"http://{ip_address}:{framework_config['port']}"
AccessUrl(ip_address, framework) ==
    <<"http://", ip_address, ":", SUPPORTED_FRAMEWORKS[framework].port>>

\* Deployment.to_dict: the columns of a row as the API exposes them
ToDict(id) ==
    [id |-> id, name |-> db[id].name, deployment_type |-> db[id].deployment_type,
     github_url |-> db[id].github_url, status |-> db[id].status,
     deployed_at |-> db[id].deployed_at, deleted_at |-> db[id].deleted_at,
     ip_address |-> db[id].ip_address, vm_id |-> db[id].vm_id,
     error_message |-> db[id].error_message]

\* lines 137-142: terraform_manager.deploy_application runs over SSH, on the
\* address of the row
FlowDeployApplication(f) ==
    /\ flow[f].pc = "deploying"
    /\ \E r \in {[NoResult EXCEPT !.success = TRUE,
                     !.access_url = AccessUrl(db[flow[f].rec].ip_address, flow[f].framework)],
                 [NoResult EXCEPT !.error = <<"SSH connection failed">>]} :
          flow' = [flow EXCEPT ![f].pc = "deployed",
                      ![f].deploy_result = r,
                      ![f].trace = Append(@, "deploy_application")]
    /\ UNCHANGED <<db, del, varfile, tfstate, pve, allocIn, allocOut, others, later, final>>

\* lines 144-168: RUNNING and deployed_at are committed and the request is
\* answered, or FAILED with the error, and then the exception is raised
FlowAfterDeploy(f) ==
    /\ flow[f].pc = "deployed"
    /\ LET status == StatusAfterDeploy(flow[f].deploy_result)
       IN  IF status # FAILED
           THEN /\ db' = Commit(flow[f].rec, [status |-> status, deployed_at |-> UtcNow])
                /\ flow' = [flow EXCEPT ![f].pc = "done",
                               ![f].resp = [success |-> TRUE, code |-> 200, error |-> <<>>,
                                   deployment |->
                                      [id |-> flow[f].rec,
                                       name |-> db'[flow[f].rec].name,
                                       ip_address |-> db'[flow[f].rec].ip_address,
                                       vm_id |-> db'[flow[f].rec].vm_id,
                                       status |-> db'[flow[f].rec].status,
                                       framework |-> flow[f].framework,
                                       access_url |-> flow[f].deploy_result.access_url]],
                               ![f].trace = Append(@, status)]
           ELSE /\ db' = Commit(flow[f].rec, [status |-> FAILED,
                                              error_message |-> flow[f].deploy_result.error])
                /\ flow' = [flow EXCEPT ![f].pc = "raised",
                               ![f].exc = Wrap("Application deployment failed: ",
                                               flow[f].deploy_result.error),
                               ![f].trace = Append(@, FAILED)]
    /\ UNCHANGED <<del, varfile, tfstate, pve, allocIn, allocOut, others, later, final>>

\* a handler that sends a request whose apply failed through apply once more
FlowExceptHandlerRetrying(f) ==
    /\ flow[f].pc = "raised"
    /\ db' = Commit(flow[f].rec, [status |-> FAILED, error_message |-> flow[f].exc])
    /\ flow' = [flow EXCEPT
                   ![f].pc = IF Count(flow[f].trace, "apply") = 1 THEN "provisioning"
                             ELSE "done",
                   ![f].resp = [success |-> FALSE, code |-> 500, error |-> flow[f].exc],
                   ![f].trace = Append(@, FAILED)]
    /\ UNCHANGED <<del, varfile, tfstate, pve, allocIn, allocOut, others, later, final>>

\* a handler that answers 500 and leaves the row as it is
FlowExceptHandlerSilent(f) ==
    /\ flow[f].pc = "raised"
    /\ db' = db
    /\ flow' = [flow EXCEPT ![f].pc = "done",
                   ![f].resp = [success |-> FALSE, code |-> 500, error |-> flow[f].exc],
                   ![f].trace = Append(@, FAILED)]
    /\ UNCHANGED <<del, varfile, tfstate, pve, allocIn, allocOut, others, later, final>>

\* lines 176-190: the handler commits FAILED with str(e) and answers 500
FlowExceptHandler(f) ==
    /\ flow[f].pc = "raised"
    /\ db' = Commit(flow[f].rec, [status |-> FAILED, error_message |-> flow[f].exc])
    /\ flow' = [flow EXCEPT ![f].pc = "done",
                   ![f].resp = [success |-> FALSE, code |-> 500, error |-> flow[f].exc],
                   ![f].trace = Append(@, FAILED)]
    /\ UNCHANGED <<del, varfile, tfstate, pve, allocIn, allocOut, others, later, final>>

\* the response is returned and the worker is free for the next request
FlowReturn(f) ==
    /\ flow[f].pc = "done"
    /\ flow' = [flow EXCEPT ![f] = IdleFlow]
    /\ UNCHANGED <<db, del, varfile, tfstate, pve, allocIn, allocOut, others, later, final>>

-----------------------------------------------------------------------------
(* Deletion: routes.delete_deployment *)

\* the workers serving DELETE /deployments/<id>
Deleters == {"d1"}
NoDestroy == [success |-> FALSE, error |-> <<>>]
IdleDelete == [pc |-> "idle", target |-> 0, result |-> NoDestroy, resp |-> NoResponse]

\* lines 258-269: the row is looked up (404 when absent) and destroy runs on
\* its name; a destroy that succeeds removes the instance, the workspace's
\* state and the state directory
DeleteRequestWithin(r, cap) ==
    /\ del[r].pc = "idle"
    /\ \E id \in 1..cap :
          IF ~Exists(id)
          THEN /\ del' = [del EXCEPT ![r].pc = "done", ![r].resp = [success |-> FALSE, code |-> 404,
                                          error |-> <<"Deployment not found">>]]
               /\ UNCHANGED <<varfile, tfstate, pve>>
          ELSE \E select_ok \in BOOLEAN, destroy_ok \in BOOLEAN :
               LET name == db[id].name
                   res == Destroy(name, select_ok, destroy_ok)
               IN  /\ del' = [del EXCEPT ![r].pc = "destroyed",
                                 ![r].target = id,
                                 ![r].result = res]
                   /\ IF res.success
                      THEN /\ pve' = NodeAfterDestroy(name)
                           /\ tfstate' = [tfstate EXCEPT ![name] = NoVmId]
                           /\ varfile' = varfile \ {name}
                      ELSE UNCHANGED <<varfile, tfstate, pve>>
    /\ UNCHANGED <<db, flow, allocIn, allocOut, others, later, final>>

\* a request, for one of the ids a table of at most MaxRecords rows can hold
DeleteRequest(r) == DeleteRequestWithin(r, MaxRecords)

\* a handler that marks the row whatever destroy returned
DeleteRespondForced(r) ==
    /\ del[r].pc = "destroyed"
    /\ db' = Commit(del[r].target, [status |-> DELETED, deleted_at |-> UtcNow])
    /\ del' = [del EXCEPT ![r].pc = "done",
                  ![r].resp = [success |-> TRUE, code |-> 200, error |-> <<>>]]
    /\ UNCHANGED <<flow, varfile, tfstate, pve, allocIn, allocOut, others, later, final>>

\* lines 271-288: DELETED and deleted_at are committed after a destroy that
\* succeeded; otherwise the error is answered and the row is not touched
DeleteRespond(r) ==
    /\ del[r].pc = "destroyed"
    /\ IF del[r].result.success
       THEN /\ db' = Commit(del[r].target, [status |-> DELETED, deleted_at |-> UtcNow])
            /\ del' = [del EXCEPT ![r].pc = "done",
                          ![r].resp = [success |-> TRUE, code |-> 200, error |-> <<>>]]
       ELSE /\ db' = db
            /\ del' = [del EXCEPT ![r].pc = "done",
                          ![r].resp = [success |-> FALSE, code |-> 500,
                                       error |-> Wrap("Failed to destroy infrastructure: ",
                                                      del[r].result.error)]]
    /\ UNCHANGED <<flow, varfile, tfstate, pve, allocIn, allocOut, others, later, final>>

\* the response is returned and the worker is free for the next request
DeleteReturn(r) ==
    /\ del[r].pc = "done"
    /\ del' = [del EXCEPT ![r] = IdleDelete]
    /\ UNCHANGED <<db, flow, varfile, tfstate, pve, allocIn, allocOut, others, later, final>>

-----------------------------------------------------------------------------
(* The Proxmox sync import: routes.sync_proxmox_resources *)

\* lines 517 and 568: the status of the row created for a listed instance
ImportedStatus(i) == IF i.status = "running" THEN RUNNING ELSE STOPPED

\* lines 507-522 and 558-573: the row created for an instance that is not tracked
ImportedDeployment(i, ip) ==
    [NewDeployment(i.name, i.type, ImportedUrl, ImportedStatus(i))
        EXCEPT !.vm_id = i.vmid, !.ip_address = ip]

\* the rows for a set of instances, in the order of the listing (by vmid)
RECURSIVE ImportRows(_, _)
ImportRows(instances, ip) ==
    IF instances = {} THEN <<>>
    ELSE LET i == CHOOSE x \in instances : \A y \in instances : x.vmid <= y.vmid
         IN  <<ImportedDeployment(i, ip)>> \o ImportRows(instances \ {i}, ip)

\* lines 450-603: every listed instance whose vmid no undeleted row carries
\* becomes a row, the VMs first and then the containers; a failed connection
\* answers 500 and a failed listing is skipped
SyncWithin(cap) ==
    /\ \E mode \in ViewModes, ip \in {None, Address} :
          LET tracked == GetUsedVmIds(db)
              qemu == IF mode \in {"connect_fail", "qemu_fail"} THEN {}
                      ELSE { i \in pve : i.type = "vm" /\ i.vmid \notin tracked }
              lxc  == IF mode \in {"connect_fail", "lxc_fail"} THEN {}
                      ELSE { i \in pve : i.type = "lxc" /\ i.vmid \notin tracked }
          IN  /\ Len(db) + Cardinality(qemu) + Cardinality(lxc) <= cap
              /\ db' = db \o ImportRows(qemu, ip) \o ImportRows(lxc, ip)
    /\ UNCHANGED <<flow, del, varfile, tfstate, pve, allocIn, allocOut, others, later, final>>

\* a sync, on a table of at most MaxRecords rows
SyncProxmoxResources == SyncWithin(MaxRecords)

-----------------------------------------------------------------------------
(* The environment: an instance appears on the node outside the platform *)

ExternalName == "ext"

ExternalCreate ==
    /\ \A i \in pve : i.name # ExternalName
    /\ \E vmid \in {MinVmId} \ PveIds, dtype \in ExternalTypes,
          status \in {"running", "stopped"} :
          pve' = pve \cup {[vmid |-> vmid, type |-> dtype,
                            name |-> ExternalName, status |-> status]}
    /\ UNCHANGED <<db, flow, del, varfile, tfstate, allocIn, allocOut, others, later, final>>

-----------------------------------------------------------------------------
(* Two deploy requests served at the same time: routes.deploy_application
   on two workers, from the PENDING row to the commit of the vm_id *)

Racers == {"r1", "r2"}
IdleRacer == [pc |-> "idle", rec |-> 0, vm_id |-> NoVmId]
\* the values random.randint takes for the two requests
RacePicks == RandInt(MinVmId, MaxPick + 1)

\* lines 91-103: the row is created PENDING and committed
RaceRequest(f) ==
    /\ race[f].pc = "idle"
    /\ \E name \in Names, dtype \in RequestTypes :
          db' = Append(db, NewDeployment(name, dtype, RepoUrl, PENDING))
    /\ race' = [race EXCEPT ![f].pc = "pending", ![f].rec = Len(db) + 1]
    /\ UNCHANGED <<flow, del, varfile, tfstate, pve, allocIn, allocOut,
                   ws, plan, resolver, ssh, build, san, later, final>>

\* lines 113-123: generate_config allocates the id from the rows and the node
\* as they are now; the row is committed PROVISIONING, without the id
RaceGenerateConfig(f) ==
    /\ race[f].pc = "pending"
    /\ \E mode \in ViewModes :
       \E o \in GenerateVmId(UsedIds(GetUsedVmIds(db), NodeView(mode)), RacePicks) :
          /\ o.via # "exhausted"
          /\ race' = [race EXCEPT ![f].pc = "provisioning", ![f].vm_id = o.vm_id]
    /\ db' = Commit(race[f].rec, [status |-> PROVISIONING])
    /\ UNCHANGED <<flow, del, varfile, tfstate, pve, allocIn, allocOut,
                   ws, plan, resolver, ssh, build, san, later, final>>

\* line 125: apply creates the instance unless the node holds the vmid already
\* (or fails for another reason); lines 170-173: a failure is committed
RaceApply(f) ==
    /\ race[f].pc = "provisioning"
    /\ \/ /\ race[f].vm_id \notin PveIds
          /\ pve' = pve \cup {[vmid |-> race[f].vm_id,
                               type |-> db[race[f].rec].deployment_type,
                               name |-> db[race[f].rec].name, status |-> "running"]}
          /\ race' = [race EXCEPT ![f].pc = "applied"]
          /\ UNCHANGED db
       \/ /\ db' = Commit(race[f].rec, [status |-> FAILED,
                                        error_message |-> <<"Terraform apply failed">>])
          /\ race' = [race EXCEPT ![f].pc = "failed"]
          /\ UNCHANGED pve
    /\ UNCHANGED <<flow, del, varfile, tfstate, allocIn, allocOut,
                   ws, plan, resolver, ssh, build, san, later, final>>

\* lines 127-131: DEPLOYING is committed, and with it the vm_id
RaceRecord(f) ==
    /\ race[f].pc = "applied"
    /\ db' = Commit(race[f].rec, [status |-> DEPLOYING, ip_address |-> Address,
                                  vm_id |-> race[f].vm_id])
    /\ race' = [race EXCEPT ![f].pc = "recorded"]
    /\ UNCHANGED <<flow, del, varfile, tfstate, pve, allocIn, allocOut,
                   ws, plan, resolver, ssh, build, san, later, final>>

-----------------------------------------------------------------------------
(* The engine's workspaces: TerraformManager.apply and TerraformManager.destroy
   called at the same time for two deployments. Every TerraformManager runs
   the engine in the one terraform_dir, whose selected workspace is shared *)

DefaultWorkspace == "default"
\* the two calls: an apply for one deployment, an apply or a destroy for another
WsCalls == {"c1", "c2"}
WsCall(op, name) == [op |-> op, name |-> name, pc |-> "start", ran |-> <<>>]
\* the engine command cmd of call c runs, against the workspace selected now
WsRun(c, cmd, pc) ==
    [ws EXCEPT !.call[c].ran = Append(@, [cmd |-> cmd, workspace |-> ws.selected]),
               !.call[c].pc = pc]
OtherThanWs == <<db, flow, del, varfile, tfstate, pve, allocIn, allocOut,
                 race, plan, resolver, ssh, build, san, later, final>>

\* apply, lines 196-210: workspace new, or workspace select when it is listed
\* destroy, lines 326-328: workspace select, which fails when there is none
WsSelect(c) ==
    /\ ws.call[c].pc = "start"
    /\ LET name == ws.call[c].name
       IN  IF ws.call[c].op = "destroy" /\ name \notin ws.exist
           THEN ws' = [ws EXCEPT !.call[c].pc = "done"]
           ELSE ws' = [ws EXCEPT !.selected = name,
                                 !.exist = @ \cup {name},
                                 !.call[c].pc = "selected"]
    /\ UNCHANGED OtherThanWs

\* apply, lines 221-258: plan; a plan that fails ends the call
WsPlan(c) ==
    /\ ws.call[c].op = "apply" /\ ws.call[c].pc = "selected"
    /\ \E ok \in BOOLEAN : ws' = WsRun(c, "plan", IF ok THEN "planned" ELSE "done")
    /\ UNCHANGED OtherThanWs

\* apply, lines 263-275: apply
WsApply(c) ==
    /\ ws.call[c].op = "apply" /\ ws.call[c].pc = "planned"
    /\ ws' = WsRun(c, "apply", "done")
    /\ UNCHANGED OtherThanWs

\* destroy, lines 334-342: destroy; a destroy that fails ends the call
WsDestroy(c) ==
    /\ ws.call[c].op = "destroy" /\ ws.call[c].pc = "selected"
    /\ \E ok \in BOOLEAN : ws' = WsRun(c, "destroy", IF ok THEN "destroyed" ELSE "done")
    /\ UNCHANGED OtherThanWs

\* destroy, line 347: workspace select default
WsSelectDefault(c) ==
    /\ ws.call[c].op = "destroy" /\ ws.call[c].pc = "destroyed"
    /\ ws' = [ws EXCEPT !.selected = DefaultWorkspace, !.call[c].pc = "default"]
    /\ UNCHANGED OtherThanWs

\* destroy, line 351: workspace delete, which the engine refuses for the
\* workspace that is selected; the exit status is not looked at
WsDelete(c) ==
    /\ ws.call[c].op = "destroy" /\ ws.call[c].pc = "default"
    /\ ws' = [ws EXCEPT !.exist = IF ws.selected = ws.call[c].name THEN @
                                  ELSE @ \ {ws.call[c].name},
                        !.call[c].pc = "done"]
    /\ UNCHANGED OtherThanWs

-----------------------------------------------------------------------------
(* The plan phase of TerraformManager.apply, lines 219-260 *)

\* the exit status of plan: 0 no changes, 2 changes planned, 1 error
PlanCodes == {0, 1, 2}
\* error texts, as the sequences of the fragments that matter to the match
Fragments == {"vm", "VM", "not found", "timeout"}
ErrorTexts == {<<>>} \cup { <<a>> : a \in Fragments }
                     \cup { <<a, b>> : a \in Fragments, b \in Fragments }
Contains(text, fragment) == \E k \in DOMAIN text : text[k] = fragment

\* a match on any "not found"
DriftSignatureLoose(error_msg) == Contains(error_msg, "not found")

\* line 232: "vm" in error_msg and "not found" in error_msg
DriftSignature(error_msg) ==
    Contains(error_msg, "vm") /\ Contains(error_msg, "not found")

\* line 236: the address of the resource that is removed from the state
ResourceAddr(dtype) ==
    IF dtype = "lxc" THEN "proxmox_lxc.deployment_lxc[0]"
    ELSE "proxmox_vm_qemu.deployment_vm[0]"

IdlePlan(dtype) ==
    [pc |-> "plan", deployment_type |-> dtype, code |-> 0, error_msg |-> <<>>,
     retry_code |-> 0, cmds |-> <<>>, error |-> <<>>]
OtherThanPlan == <<db, flow, del, varfile, tfstate, pve, allocIn, allocOut,
                   race, ws, resolver, ssh, build, san, later, final>>

\* lines 221-232 and 254-258: the plan; an error that does not match the
\* signature is raised
PlanFirst ==
    /\ plan.pc = "plan"
    /\ \E code \in PlanCodes, error_msg \in ErrorTexts :
          plan' = [plan EXCEPT
                      !.code = code,
                      !.error_msg = error_msg,
                      !.cmds = Append(@, "plan"),
                      !.pc = IF code # 1 THEN "planned"
                             ELSE IF DriftSignature(error_msg) THEN "drift"
                             ELSE "failed",
                      !.error = IF code = 1 /\ ~DriftSignature(error_msg)
                                THEN <<"Terraform plan failed">> ELSE <<>>]
    /\ UNCHANGED OtherThanPlan

\* lines 233-239: the resource is removed from the state (the exit status of
\* the command is not looked at)
PlanStateRm ==
    /\ plan.pc = "drift"
    /\ plan' = [plan EXCEPT
                   !.cmds = Append(@, "state rm " \o ResourceAddr(plan.deployment_type)),
                   !.pc = "retry"]
    /\ UNCHANGED OtherThanPlan

\* lines 241-253: the plan is run again; an error is raised
PlanRetry ==
    /\ plan.pc = "retry"
    /\ \E code \in PlanCodes :
          plan' = [plan EXCEPT
                      !.retry_code = code,
                      !.cmds = Append(@, "plan"),
                      !.pc = IF code = 1 THEN "failed" ELSE "planned",
                      !.error = IF code = 1 THEN <<"Terraform plan failed after retry">>
                                ELSE <<>>]
    /\ UNCHANGED OtherThanPlan

-----------------------------------------------------------------------------
(* The address resolver: TerraformManager._get_ip_from_proxmox *)

\* max_retries
MaxRetries == 10

\* what a query of the node's API can give short of a usable address: no
\* interfaces yet, interfaces without a usable address, an exception; and for
\* a VM an in-guest agent that does not answer
Unusable(dtype) ==
    {"not_ready", "no_address", "error"}
        \cup (IF dtype = "vm" THEN {"agent_down"} ELSE {})

\* a resolver that raises the exception of a query at once
ReraiseAtOnce(attempt) == TRUE

\* lines 810-816: the exception of a query is raised on the last attempt only
Reraise(attempt) == ~(attempt < MaxRetries - 1)

\* a call on an instance whose address becomes usable at poll ready_at
\* (never, when ready_at is beyond the attempts)
IdleResolver(dtype, ready_at) ==
    [pc |-> "polling", deployment_type |-> dtype, ready_at |-> ready_at,
     attempt |-> 0, queries |-> 0, ip |-> None, error |-> <<>>]
OtherThanResolver == <<db, flow, del, varfile, tfstate, pve, allocIn, allocOut,
                       race, ws, plan, ssh, build, san, later, final>>

\* lines 763-818: one pass of the loop, with the raise that follows the last
ResolverAttempt ==
    /\ resolver.pc = "polling"
    /\ resolver.attempt < MaxRetries
    /\ IF resolver.queries + 1 = resolver.ready_at
       THEN resolver' = [resolver EXCEPT !.queries = @ + 1, !.pc = "returned",
                                         !.ip = Address]
       ELSE \E got \in Unusable(resolver.deployment_type) :
               IF got = "error" /\ Reraise(resolver.attempt)
               THEN resolver' = [resolver EXCEPT !.queries = @ + 1, !.pc = "failed",
                                                 !.error = <<"query error">>]
               ELSE IF resolver.attempt + 1 = MaxRetries
               THEN resolver' = [resolver EXCEPT !.queries = @ + 1, !.attempt = @ + 1,
                                    !.pc = "failed",
                                    !.error = <<"Could not retrieve IP address">>]
               ELSE resolver' = [resolver EXCEPT !.queries = @ + 1, !.attempt = @ + 1]
    /\ UNCHANGED OtherThanResolver

-----------------------------------------------------------------------------
(* The remote executor: TerraformManager.deploy_application, lines 407-500 *)

\* max_retries of the connection loop
MaxSshRetries == 30
\* exit statuses of a command
ExitCodes == {0, 1, 127}

\* a loop that gives up one attempt too late
GiveUpLate(i) == i = MaxSshRetries

\* line 463: if i == max_retries - 1: raise
GiveUp(i) == i = MaxSshRetries - 1

\* a loop that does not look at the exit status
CommandFailedNever(exit_status) == FALSE

\* line 480: if exit_status != 0: raise
CommandFailed(exit_status) == exit_status # 0

\* a call with n commands to run; tries holds the outcome of each connection
\* attempt, ran the index and the exit status of each command executed
IdleSsh(n) ==
    [pc |-> "connecting", n |-> n, tries |-> <<>>, ran |-> <<>>,
     closed |-> FALSE, result |-> [success |-> FALSE, error |-> <<>>]]
OtherThanSsh == <<db, flow, del, varfile, tfstate, pve, allocIn, allocOut,
                  race, ws, plan, resolver, build, san, later, final>>

\* lines 412-466: one pass of the connection loop: the connection breaks out
\* of the loop, an exception is raised on the last pass and retried otherwise
SshConnect ==
    /\ ssh.pc = "connecting"
    /\ LET i == Len(ssh.tries)
       IN  \E ok \in BOOLEAN :
              IF ok
              THEN ssh' = [ssh EXCEPT !.tries = Append(@, TRUE), !.pc = "commands"]
              ELSE IF GiveUp(i)
              THEN ssh' = [ssh EXCEPT !.tries = Append(@, FALSE), !.pc = "done",
                              !.result = [success |-> FALSE,
                                          error |-> <<"SSH connection failed after 30 attempts">>]]
              ELSE ssh' = [ssh EXCEPT !.tries = Append(@, FALSE),
                              !.pc = IF i + 1 < MaxSshRetries THEN "connecting"
                                     ELSE "commands"]
    /\ UNCHANGED OtherThanSsh

\* lines 472-484: the next command is executed and its exit status awaited
SshExec ==
    /\ ssh.pc = "commands"
    /\ Len(ssh.ran) < ssh.n
    /\ \E exit_status \in ExitCodes :
          LET ran == Append(ssh.ran, [idx |-> Len(ssh.ran), exit_status |-> exit_status])
          IN  IF CommandFailed(exit_status)
              THEN ssh' = [ssh EXCEPT !.ran = ran, !.pc = "done",
                              !.result = [success |-> FALSE,
                                          error |-> <<"Deployment command failed">>]]
              ELSE ssh' = [ssh EXCEPT !.ran = ran]
    /\ UNCHANGED OtherThanSsh

\* lines 486-493: after the last command the session is closed and success
\* is returned
SshFinish ==
    /\ ssh.pc = "commands"
    /\ Len(ssh.ran) = ssh.n
    /\ ssh' = [ssh EXCEPT !.pc = "done", !.closed = TRUE,
                          !.result = [success |-> TRUE, error |-> <<>>]]
    /\ UNCHANGED OtherThanSsh

-----------------------------------------------------------------------------
(* The command sequence builder: TerraformManager._build_deployment_commands,
   and the lookup of the framework's descriptor that precedes it in
   deploy_application *)

\* framework strings a caller passes: the supported ones and two others
FrameworkStrings == DOMAIN SUPPORTED_FRAMEWORKS \cup {"rails", "spring"}
\* repository URLs
GithubUrls == {RepoUrl, "https://github.com/u/other"}
\* env_vars: None, an empty map, or the items of a map in their order
EnvMaps ==
    { [none |-> TRUE,  items |-> <<>>],
      [none |-> FALSE, items |-> <<>>],
      [none |-> FALSE, items |-> << <<"KEY", "v">> >>],
      [none |-> FALSE, items |-> << <<"KEY", "v">>, <<"DEBUG", "0">> >>] }

\* step 2: the toolchain of the language, none for another language
ToolchainStep(language) ==
    IF language \in {"nodejs", "python", "php"}
    THEN << [kind |-> "toolchain", language |-> language] >>
    ELSE << >>

\* a builder that never writes the .env file
EnvStepNever(env_vars) == << >>

\* step 4: if env_vars: echo -e "k=v\n..." > /opt/app/.env
EnvStep(env_vars) ==
    IF ~env_vars.none /\ env_vars.items # << >>
    THEN << [kind |-> "env",
             env_lines |-> [i \in DOMAIN env_vars.items |->
                               <<env_vars.items[i][1], "=", env_vars.items[i][2]>>]] >>
    ELSE << >>

\* step 5: the recipe of the framework with the port it binds, if it binds one;
\* the else branch is the generic recipe
LaunchStep(framework, port) ==
    LET Launch(recipe, bind) == << [kind |-> "launch", recipe |-> recipe, bind |-> bind] >>
    IN  CASE framework = "react"   -> Launch("react", <<port>>)
          [] framework = "vuejs"   -> Launch("vuejs", <<port>>)
          [] framework = "nextjs"  -> Launch("nextjs", << >>)
          [] framework = "express" -> Launch("express", << >>)
          [] framework = "django"  -> Launch("django", <<port>>)
          [] framework = "flask"   -> Launch("flask", <<port>>)
          [] framework = "fastapi" -> Launch("fastapi", <<port>>)
          [] framework = "laravel" -> Launch("laravel", <<port>>)
          [] OTHER                 -> Launch("generic", << >>)

\* _build_deployment_commands(framework, framework_config, github_url, env_vars)
BuildDeploymentCommands(framework, framework_config, github_url, env_vars) ==
    LET language == framework_config.language
        port == framework_config.port
    IN  << [kind |-> "bootstrap"] >>
        \o ToolchainStep(language)
        \o << [kind |-> "recreate"], [kind |-> "clone", github_url |-> github_url],
              [kind |-> "dos2unix"] >>
        \o EnvStep(env_vars)
        \o LaunchStep(framework, port)
        \o << [kind |-> "probe"] >>

\* a call with its arguments, before it starts
IdleBuild(framework, github_url, env_vars) ==
    [pc |-> "idle", framework |-> framework, github_url |-> github_url,
     env_vars |-> env_vars, commands |-> << >>, error |-> << >>]
OtherThanBuild == <<db, flow, del, varfile, tfstate, pve, allocIn, allocOut,
                    race, ws, plan, resolver, ssh, san, later, final>>

\* deploy_application, lines 395-398 and 469: the descriptor is looked up, the
\* call fails if there is none, and the sequence is built otherwise
DeployBuild ==
    /\ build.pc = "idle"
    /\ IF build.framework \notin DOMAIN SUPPORTED_FRAMEWORKS
       THEN build' = [build EXCEPT !.pc = "failed",
                                   !.error = <<"Unsupported framework", build.framework>>]
       ELSE build' = [build EXCEPT !.pc = "built",
                         !.commands = BuildDeploymentCommands(build.framework,
                                          SUPPORTED_FRAMEWORKS[build.framework],
                                          build.github_url, build.env_vars)]
    /\ UNCHANGED OtherThanBuild

-----------------------------------------------------------------------------
(* Name sanitization: TerraformManager.generate_config line 109 and
   helpers.sanitize_name.  A name is the sequence of its characters. *)

Letters  == <<"a","b","c","d","e","f","g","h","i","j","k","l","m",
              "n","o","p","q","r","s","t","u","v","w","x","y","z">>
Capitals == <<"A","B","C","D","E","F","G","H","I","J","K","L","M",
              "N","O","P","Q","R","S","T","U","V","W","X","Y","Z">>
Digits   == {"0","1","2","3","4","5","6","7","8","9"}
Range(seq) == { seq[i] : i \in DOMAIN seq }
\* the characters the input names are made of
NameChars == {"a", "D", "7", "-", "_", " ", "."}
NameInputs == UNION { [1..n -> NameChars] : n \in 0..MaxNameLen }

\* str.swapcase of one character
SwapCaseChar(ch) ==
    IF ch \in Range(Capitals)
    THEN Letters[CHOOSE i \in DOMAIN Capitals : Capitals[i] = ch]
    ELSE IF ch \in Range(Letters)
    THEN Capitals[CHOOSE i \in DOMAIN Letters : Letters[i] = ch]
    ELSE ch

\* str.lower of one character
LowerChar(ch) ==
    IF ch \in Range(Capitals)
    THEN Letters[CHOOSE i \in DOMAIN Capitals : Capitals[i] = ch]
    ELSE ch
\* name.lower()
Lower(name) == [i \in DOMAIN name |-> LowerChar(name[i])]
\* name.replace(old, new), old and new one character each
Replace(name, old, new) == [i \in DOMAIN name |-> IF name[i] = old THEN new ELSE name[i]]
\* a sanitization that removes nothing
RemoveNothing(name) == name

\* re.sub(r'[^a-zA-Z0-9_-]', '', name)
RECURSIVE RemoveOthers(_)
RemoveOthers(name) ==
    IF name = << >> THEN << >>
    ELSE IF Head(name) \in Range(Letters) \cup Range(Capitals) \cup Digits \cup {"_", "-"}
         THEN <<Head(name)>> \o RemoveOthers(Tail(name))
         ELSE RemoveOthers(Tail(name))

\* generate_config, line 109: sanitized_name = name.replace('_', '-').lower()
SanitizedName(name) == Lower(Replace(name, "_", "-"))
\* helpers.sanitize_name
SanitizeName(name) == Lower(RemoveOthers(Replace(name, " ", "-")))

\* a function to call with a name; out holds the result of each call made
SanFns == {"generate_config", "sanitize_name"}
IdleSan(fn, name) == [fn |-> fn, name |-> name, out |-> << >>]
OtherThanSan == <<db, flow, del, varfile, tfstate, pve, allocIn, allocOut,
                  race, ws, plan, resolver, ssh, build, later, final>>
\* the argument of the next call: the name, then the result of the call before
SanArg == IF san.out = << >> THEN san.name ELSE san.out[Len(san.out)]

\* generate_config computes the hostname it puts in tf_vars['deployment_name']
GenerateConfigHostname ==
    /\ san.fn = "generate_config"
    /\ Len(san.out) < 2
    /\ san' = [san EXCEPT !.out = Append(@, SanitizedName(SanArg))]
    /\ UNCHANGED OtherThanSan

\* sanitize_name is called
SanitizeNameCall ==
    /\ san.fn = "sanitize_name"
    /\ Len(san.out) < 2
    /\ san' = [san EXCEPT !.out = Append(@, SanitizeName(SanArg))]
    /\ UNCHANGED OtherThanSan

-----------------------------------------------------------------------------
(* The waits of a deploy flow: the address resolver's loop
   (_get_ip_from_proxmox), the connection loop of deploy_application, and the
   wait for the package-manager lock in the first command of the sequence *)

\* a flow whose instance was just created, with the package-manager lock of
\* the instance free or held by another package-manager invocation
IdleWait(dtype, lock) ==
    [pc |-> "address", deployment_type |-> dtype, attempt |-> 0, lock |-> lock,
     status |-> PROVISIONING, error |-> <<>>]
OtherThanWait == <<db, flow, del, varfile, tfstate, pve, allocIn, allocOut,
                   others, dst, keys, store, parsed, stages, final>>

\* _get_ip_from_proxmox, lines 763-818: one pass of the loop; a usable
\* address ends apply with success, and after the last pass the exception
\* makes apply return a failure that the route commits as FAILED
WaitAddress ==
    /\ wait.pc = "address"
    /\ \E usable \in BOOLEAN :
          IF usable
          THEN wait' = [wait EXCEPT !.pc = "ssh", !.attempt = 0, !.status = DEPLOYING]
          ELSE IF wait.attempt + 1 < MaxRetries
          THEN wait' = [wait EXCEPT !.attempt = @ + 1]
          ELSE wait' = [wait EXCEPT !.pc = "done", !.attempt = 0, !.status = FAILED,
                           !.error = <<"Could not retrieve IP address",
                                       Unusable(wait.deployment_type)>>]
    /\ UNCHANGED OtherThanWait

\* deploy_application, lines 412-466: one pass of the connection loop
WaitSsh ==
    /\ wait.pc = "ssh"
    /\ \E ok \in BOOLEAN :
          IF ok
          THEN wait' = [wait EXCEPT !.pc = "lock", !.attempt = 0]
          ELSE IF GiveUp(wait.attempt)
          THEN wait' = [wait EXCEPT !.pc = "done", !.attempt = 0, !.status = FAILED,
                           !.error = <<"SSH connection failed after 30 attempts">>]
          ELSE wait' = [wait EXCEPT !.attempt = @ + 1]
    /\ UNCHANGED OtherThanWait

\* lines 515-526 and 474-477: the first command is sent and its exit status
\* awaited; its loop "while fuser ...; do sleep 2; done" tests the lock: it
\* ends when the lock is free and sleeps while it is held
WaitLock ==
    /\ wait.pc = "lock"
    /\ wait' = [wait EXCEPT !.pc = IF wait.lock = "free" THEN "commands" ELSE "sleep"]
    /\ UNCHANGED OtherThanWait

\* line 516: sleep 2, and the lock is tested again
WaitSleep ==
    /\ wait.pc = "sleep"
    /\ wait' = [wait EXCEPT !.pc = "lock"]
    /\ UNCHANGED OtherThanWait

\* the instance: the other package-manager invocation ends, if it ever does
LockRelease ==
    /\ wait.lock = "held"
    /\ wait' = [wait EXCEPT !.lock = "free"]
    /\ UNCHANGED OtherThanWait

\* lines 472-500 and routes.py lines 144-168: the commands run to the end or
\* to the first non-zero exit status, and the route commits RUNNING or FAILED
WaitCommands ==
    /\ wait.pc = "commands"
    /\ \E exit_status \in ExitCodes :
          IF CommandFailed(exit_status)
          THEN wait' = [wait EXCEPT !.pc = "done", !.status = FAILED,
                           !.error = <<"Deployment command failed">>]
          ELSE wait' = [wait EXCEPT !.pc = "done", !.status = RUNNING]
    /\ UNCHANGED OtherThanWait

-----------------------------------------------------------------------------
(* One call of TerraformManager.destroy, engine command by engine command *)

\* return codes of an engine command
ReturnCodes == {0, 1}
DstNames == {"app-a", "app-b"}

\* the directories and the engine's workspaces a call finds
DstWorld(varfiles, dirs, exist) ==
    [varfiles |-> varfiles, dirs |-> dirs, exist |-> exist, selected |-> DefaultWorkspace,
     managed |-> exist \ {DefaultWorkspace}]
\* a call of destroy(deployment_name) before it starts; cmds holds the engine
\* commands run with their return codes, found the world as the call found it,
\* prior how the call before it for the same deployment ended, if there was one
IdleDst(name, world) ==
    [pc |-> "check", name |-> name, world |-> world, found |-> world,
     cmds |-> <<>>, result |-> NoDestroy, prior |-> "none"]
OtherThanDst == <<db, flow, del, varfile, tfstate, pve, allocIn, allocOut,
                  others, wait, keys, store, parsed, stages, final>>
DstRan(cmd, code) == Append(dst.cmds, [cmd |-> cmd, code |-> code])
DstFail(error) == [success |-> FALSE, error |-> <<error>>]

\* a call that goes on without the variable file
VarFileMissingIgnored(name) == FALSE

\* line 321: not var_file.exists()
VarFileMissing(name) == name \notin dst.world.varfiles

\* lines 318-322: the variable file is looked for
DstCheck ==
    /\ dst.pc = "check"
    /\ IF VarFileMissing(dst.name)
       THEN dst' = [dst EXCEPT !.pc = "done",
                               !.result = DstFail("No Terraform state found")]
       ELSE dst' = [dst EXCEPT !.pc = "select"]
    /\ UNCHANGED OtherThanDst

\* lines 324-328: workspace select; it exits 0 only for a workspace that exists
DstSelect ==
    /\ dst.pc = "select"
    /\ \E code \in ReturnCodes :
          /\ code = 0 => dst.name \in dst.world.exist
          /\ IF code # 0
             THEN dst' = [dst EXCEPT !.pc = "done", !.cmds = DstRan("workspace select", code),
                                     !.result = DstFail("Failed to select workspace")]
             ELSE dst' = [dst EXCEPT !.pc = "destroy", !.cmds = DstRan("workspace select", code),
                                     !.world.selected = dst.name]
    /\ UNCHANGED OtherThanDst

\* a call that goes on after a destroy command that failed
DestroyFailedNever(return_code) == FALSE

\* line 341: if return_code != 0
DestroyFailed(return_code) == return_code # 0

\* lines 333-342: destroy -auto-approve; exit 0 leaves the workspace empty
DstDestroy ==
    /\ dst.pc = "destroy"
    /\ \E code \in ReturnCodes :
          IF DestroyFailed(code)
          THEN dst' = [dst EXCEPT !.pc = "done", !.cmds = DstRan("destroy", code),
                                  !.result = DstFail("Terraform destroy failed")]
          ELSE dst' = [dst EXCEPT !.pc = "select_default", !.cmds = DstRan("destroy", code),
                                  !.world.managed = @ \ {dst.world.selected}]
    /\ UNCHANGED OtherThanDst

\* lines 346-347: workspace select default; the return code is not read
DstSelectDefault ==
    /\ dst.pc = "select_default"
    /\ \E code \in ReturnCodes :
          dst' = [dst EXCEPT !.pc = "delete", !.cmds = DstRan("workspace select default", code),
                             !.world.selected = IF code = 0 THEN DefaultWorkspace ELSE @]
    /\ UNCHANGED OtherThanDst

\* lines 349-351: workspace delete; the engine refuses to delete the selected
\* workspace; the return code is not read
DstDelete ==
    /\ dst.pc = "delete"
    /\ \E code \in ReturnCodes :
          /\ code = 0 => dst.world.selected # dst.name
          /\ dst' = [dst EXCEPT !.pc = "rmtree", !.cmds = DstRan("workspace delete", code),
                                !.world.exist = IF code = 0 THEN @ \ {dst.name} ELSE @]
    /\ UNCHANGED OtherThanDst

\* lines 353-359: the state directory is removed and success returned
DstRmtree ==
    /\ dst.pc = "rmtree"
    /\ dst' = [dst EXCEPT !.pc = "done",
                          !.world.dirs = @ \ {dst.name},
                          !.world.varfiles = @ \ {dst.name},
                          !.result = [success |-> TRUE, error |-> <<>>]]
    /\ UNCHANGED OtherThanDst

\* destroy(deployment_name) is called once more for the same deployment, on
\* the directories and workspaces the first call left
DstAgain ==
    /\ dst.pc = "done"
    /\ dst.prior = "none"
    /\ dst' = [IdleDst(dst.name, dst.world) EXCEPT
                  !.prior = IF dst.result.success THEN "succeeded"
                            ELSE IF \E k \in DOMAIN dst.cmds :
                                       dst.cmds[k] = [cmd |-> "destroy", code |-> 1]
                            THEN "destroy_failed"
                            ELSE "failed"]
    /\ UNCHANGED OtherThanDst

-----------------------------------------------------------------------------
(* The managed SSH keypair: TerraformManager._ensure_ssh_keypair, called by
   generate_config and by deploy_application of the requests being served *)

\* a file that does not exist; a key is known by the number of its generation
NoKey == 0
\* the requests that call _ensure_ssh_keypair at the same time
KeyCallers == {"generate_config", "deploy_application"}
IdleKeyCall == [pc |-> "idle", key |-> NoKey, calls |-> 0]
\* id_rsa and id_rsa.pub hold the halves of key 1 or are missing
IdleKeys(private, public) ==
    [private |-> private, public |-> public, generated |-> 1,
     call |-> [c \in KeyCallers |-> IdleKeyCall]]
OtherThanKeys == <<db, flow, del, varfile, tfstate, pve, allocIn, allocOut,
                   others, wait, dst, store, parsed, stages, final>>

\* line 62: both files are looked for; with one missing, line 67 generates a key
KeyCheck(c) ==
    /\ keys.call[c].pc = "idle"
    /\ keys.call[c].calls < MaxEnsureCalls
    /\ IF keys.private = NoKey \/ keys.public = NoKey
       THEN keys' = [keys EXCEPT !.generated = @ + 1,
                                 !.call[c].pc = "write_private",
                                 !.call[c].key = keys.generated + 1,
                                 !.call[c].calls = @ + 1]
       ELSE keys' = [keys EXCEPT !.call[c].pc = "return", !.call[c].calls = @ + 1]
    /\ UNCHANGED OtherThanKeys

\* line 70: key.write_private_key_file
KeyWritePrivate(c) ==
    /\ keys.call[c].pc = "write_private"
    /\ keys' = [keys EXCEPT !.private = keys.call[c].key, !.call[c].pc = "write_public"]
    /\ UNCHANGED OtherThanKeys

\* lines 73-74: the public half is written
KeyWritePublic(c) ==
    /\ keys.call[c].pc = "write_public"
    /\ keys' = [keys EXCEPT !.public = keys.call[c].key, !.call[c].pc = "return"]
    /\ UNCHANGED OtherThanKeys

\* line 78: the two paths are returned
KeyReturn(c) ==
    /\ keys.call[c].pc = "return"
    /\ keys' = [keys EXCEPT !.call[c] = [IdleKeyCall EXCEPT !.calls = keys.call[c].calls]]
    /\ UNCHANGED OtherThanKeys

-----------------------------------------------------------------------------
(* The record store as the Deployment model's operations see it:
   Deployment.__init__, save, get_by_id and count_all *)

\* the id attribute of an object constructed without id, before its INSERT
NoId == 0
\* the id arguments of the constructor: none, or a given id
IdArgs == {NoId, 1}
StoreNames == {"test-app", "test-app-1"}
\* the uuid4 the column default gives the k-th object at its INSERT
Uuid4(k) == 10 + k
OtherThanStore == <<db, flow, del, varfile, tfstate, pve, allocIn, allocOut,
                    others, wait, dst, keys, parsed, stages, final>>

\* Deployment.get_by_id: cls.query.get(deployment_id), the rows with that id
GetById(table, deployment_id) == { r \in table : r.id = deployment_id }
\* Deployment.count_all: cls.query.count()
CountAll(table) == Cardinality(table)

\* Deployment.__init__, lines 44-76: the attributes are assigned, the id only
\* if one is given; the object is in no session and the table is not touched
Construct ==
    /\ Len(store.objs) < MaxObjects
    /\ \E name \in StoreNames, id \in IdArgs :
          store' = [store EXCEPT !.objs = Append(@, [id |-> id, name |-> name,
                                                     saved |-> FALSE])]
    /\ UNCHANGED OtherThanStore

\* Deployment.save (routes.py lines 100-101 do the same): db.session.add and
\* commit; the INSERT gives an object without id its uuid4, and a given id
\* that the table holds already makes the commit raise
Save ==
    /\ \E k \in DOMAIN store.objs :
          LET o == store.objs[k]
              id == IF o.id = NoId THEN Uuid4(k) ELSE o.id
          IN  /\ ~o.saved
              /\ GetById(store.table, id) = {}
              /\ store' = [store EXCEPT !.objs[k] = [o EXCEPT !.id = id, !.saved = TRUE],
                                        !.table = @ \cup {[id |-> id, name |-> o.name]}]
    /\ UNCHANGED OtherThanStore

-----------------------------------------------------------------------------
(* helpers.parse_github_url.  A URL is the sequence of its characters, with
   "https:" and "github.com" standing for the characters they are made of. *)

\* str.rstrip(chars): the trailing characters that are in chars are removed
RECURSIVE RStrip(_, _)
RStrip(str, chars) ==
    IF str # << >> /\ str[Len(str)] \in chars
    THEN RStrip(SubSeq(str, 1, Len(str) - 1), chars)
    ELSE str

\* str.split(sep): the pieces between the occurrences of sep
RECURSIVE Split(_, _)
Split(str, sep) ==
    IF \A k \in DOMAIN str : str[k] # sep THEN <<str>>
    ELSE LET k == CHOOSE i \in DOMAIN str :
                     str[i] = sep /\ \A j \in 1..(i - 1) : str[j] # sep
         IN  <<SubSeq(str, 1, k - 1)>> \o Split(SubSeq(str, k + 1, Len(str)), sep)

\* parse_github_url, lines 80-92
ParseGithubUrl(u) ==
    LET stripped == RStrip(RStrip(u, {"/"}), {".", "g", "i", "t"})
        parts == Split(stripped, "/")
    IN  IF Len(parts) >= 2
        THEN [owner |-> parts[Len(parts) - 1], repo |-> parts[Len(parts)]]
        ELSE [owner |-> << >>, repo |-> << >>]

\* owners, repository names and what follows them in the URLs given
UrlOwners == { <<"u">>, <<"g", "i">> }
RepoChars == {"r", "e", "t", "-"}
UrlRepos == UNION { [1..n -> RepoChars] : n \in 1..MaxRepoLen }
UrlSuffixes == { << >>, <<".", "g", "i", "t">>, <<"/">>, <<".", "g", "i", "t", "/">> }
\* https://github.com/<owner>/<repo><suffix>
GithubUrl(owner, repo, suffix) ==
    <<"https:", "/", "/", "github.com", "/">> \o owner \o <<"/">> \o repo \o suffix

IdleParsed(owner, repo, suffix) ==
    [pc |-> "idle", owner |-> owner, repo |-> repo,
     url |-> GithubUrl(owner, repo, suffix), out |-> [owner |-> << >>, repo |-> << >>]]
OtherThanParsed == <<db, flow, del, varfile, tfstate, pve, allocIn, allocOut,
                     others, wait, dst, keys, store, stages, final>>

\* parse_github_url is called on the URL
ParseCall ==
    /\ parsed.pc = "idle"
    /\ parsed' = [parsed EXCEPT !.pc = "done", !.out = ParseGithubUrl(parsed.url)]
    /\ UNCHANGED OtherThanParsed

-----------------------------------------------------------------------------
(* One call of TerraformManager.apply, stage by stage, lines 186-303 *)

\* a call before its first stage; ran holds the stages run, each with the
\* return code of its engine command (or 1 for an exception raised in it)
IdleStages(dtype, workspace_exists) ==
    [pc |-> "init", deployment_type |-> dtype, workspace_exists |-> workspace_exists,
     ran |-> <<>>, result |-> [success |-> FALSE, error |-> <<>>]]
OtherThanStages == <<db, flow, del, varfile, tfstate, pve, allocIn, allocOut,
                     others, wait, dst, keys, store, parsed, final>>
\* a stage was run with a return code, and the call goes on at pc
StageRan(stage, code, pc) ==
    [stages EXCEPT !.ran = Append(@, [stage |-> stage, code |-> code]), !.pc = pc]
\* lines 298-303: the exception raised in a stage ends the call with its text
StageRaised(stage, code, error) ==
    [stages EXCEPT !.ran = Append(@, [stage |-> stage, code |-> code]), !.pc = "done",
                   !.result = [success |-> FALSE, error |-> <<error>>]]

\* an apply that takes every plan for good
PlanHardFailedNever(return_code) == FALSE

\* lines 227 and 247: if return_code == 1
PlanHardFailed(return_code) == return_code = 1

\* lines 186-191: terraform init
StageInit ==
    /\ stages.pc = "init"
    /\ \E code \in ReturnCodes :
          stages' = IF code # 0 THEN StageRaised("init", code, "Terraform init failed")
                    ELSE StageRan("init", code, "workspace")
    /\ UNCHANGED OtherThanStages

\* lines 195-210: workspace list, then workspace new or workspace select
StageWorkspace ==
    /\ stages.pc = "workspace"
    /\ \E code \in ReturnCodes :
          LET cmd == IF stages.workspace_exists THEN "workspace select" ELSE "workspace new"
          IN  stages' = IF code # 0
                        THEN StageRaised(cmd, code,
                                 IF stages.workspace_exists THEN "Failed to select workspace"
                                 ELSE "Failed to create workspace")
                        ELSE StageRan(cmd, code, "varfile")
    /\ UNCHANGED OtherThanStages

\* lines 213-215: the variable file is written, or open raises
StageVarFile ==
    /\ stages.pc = "varfile"
    /\ \E code \in ReturnCodes :
          stages' = IF code # 0 THEN StageRaised("varfile", code, "OSError")
                    ELSE StageRan("varfile", code, "plan")
    /\ UNCHANGED OtherThanStages

\* lines 221-258: plan; a hard failure with the drift signature removes the
\* resource from the state, whatever state rm returns, and leads to the
\* retry; any other hard failure is raised
StagePlan ==
    /\ stages.pc = "plan"
    /\ \E code \in PlanCodes, error_msg \in ErrorTexts, rm_code \in ReturnCodes :
          stages' = IF ~PlanHardFailed(code) THEN StageRan("plan", code, "apply")
                    ELSE IF DriftSignature(error_msg)
                    THEN [StageRan("plan", code, "retry") EXCEPT
                             !.ran = @ \o <<[stage |-> "state rm", code |-> rm_code]>>]
                    ELSE StageRaised("plan", code, "Terraform plan failed")
    /\ UNCHANGED OtherThanStages

\* lines 241-253: the retry of the plan
StageRetryPlan ==
    /\ stages.pc = "retry"
    /\ \E code \in PlanCodes :
          stages' = IF PlanHardFailed(code)
                    THEN StageRaised("plan", code, "Terraform plan failed after retry")
                    ELSE StageRan("plan", code, "apply")
    /\ UNCHANGED OtherThanStages

\* lines 262-275: apply
StageApply ==
    /\ stages.pc = "apply"
    /\ \E code \in ReturnCodes :
          stages' = IF code # 0 THEN StageRaised("apply", code, "Terraform apply failed")
                    ELSE StageRan("apply", code, "output")
    /\ UNCHANGED OtherThanStages

\* lines 277-296: the outputs are read and the address resolved, or the
\* resolver raises
StageOutput ==
    /\ stages.pc = "output"
    /\ \E code \in ReturnCodes :
          stages' = IF code # 0
                    THEN StageRaised("output", code, "Could not retrieve IP address")
                    ELSE [StageRan("output", code, "done") EXCEPT
                             !.result = [success |-> TRUE, error |-> <<>>]]
    /\ UNCHANGED OtherThanStages

-----------------------------------------------------------------------------
(* TerraformManager.apply after the engine's apply returned 0, lines 277-303:
   the outputs, the address and the address resolver *)

\* the values of outputs['ip_address']['value'] that stand for "not yet available"
Sentinels == {"Check Proxmox Console", "pending", "Pending (Check Dashboard)"}
\* the value of the output: absent, empty, a sentinel or an address
OutputValues == {None, ""} \cup Sentinels \cup {Address, "10.0.0.5"}
\* the address of the instance's interface as the node reports it, None when
\* it reports none during the resolver's attempts
NodeAddresses == {None, "", "0.0.0.0", "127.0.0.1", Address}

\* bool(x) of a string or None
Truthy(x) == x \notin {None, ""}

\* an apply that asks the resolver for an absent address only
NeedsResolverAbsentOnly(ip_address) == ip_address = None

\* line 285: ip_address in [sentinels, None] or not ip_address
NeedsResolver(ip_address) ==
    ip_address \in Sentinels \cup {None} \/ ~Truthy(ip_address)

\* _get_ip_from_proxmox, lines 778 and 802: the address the loop returns
UsableAddress(dtype, ip) ==
    /\ Truthy(ip)
    /\ IF dtype = "lxc" THEN ip # "0.0.0.0" ELSE ip # "127.0.0.1"

\* a call whose engine apply returned 0
IdleAddr(dtype, outputs_ok, output, node) ==
    [pc |-> "output", deployment_type |-> dtype, outputs_ok |-> outputs_ok,
     output |-> output, node |-> node, resolver |-> "not_called",
     result |-> [success |-> FALSE, ip_address |-> None, error |-> <<>>]]
OtherThanAddr == <<db, flow, del, varfile, tfstate, pve, allocIn, allocOut,
                   others, later, wsl, inflight>>

\* lines 278-296: the outputs are read (None for outputs makes .get raise);
\* an address that needs no resolver is returned as it is
AddrOutput ==
    /\ addr.pc = "output"
    /\ IF ~addr.outputs_ok
       THEN addr' = [addr EXCEPT !.pc = "done",
                        !.result.error = <<"'NoneType' object has no attribute 'get'">>]
       ELSE IF NeedsResolver(addr.output)
       THEN addr' = [addr EXCEPT !.pc = "resolve"]
       ELSE addr' = [addr EXCEPT !.pc = "done",
                        !.result = [success |-> TRUE, ip_address |-> addr.output,
                                    error |-> <<>>]]
    /\ UNCHANGED OtherThanAddr

\* line 287 and lines 298-303: the resolver returns a usable address of the
\* node, or raises and apply returns the failure
AddrResolve ==
    /\ addr.pc = "resolve"
    /\ IF UsableAddress(addr.deployment_type, addr.node)
       THEN addr' = [addr EXCEPT !.pc = "done", !.resolver = "returned",
                        !.result = [success |-> TRUE, ip_address |-> addr.node,
                                    error |-> <<>>]]
       ELSE addr' = [addr EXCEPT !.pc = "done", !.resolver = "raised",
                        !.result.error = <<"Could not retrieve IP address">>]
    /\ UNCHANGED OtherThanAddr

-----------------------------------------------------------------------------
(* The workspace step of TerraformManager.apply, lines 194-210.  A workspace
   name is the sequence of its characters. *)

\* the workspace the engine always has
DefaultName == <<"d", "e", "f", "a", "u", "l", "t">>
\* deployment names validate_deployment_name accepts
WslNames == { <<"a", "p", "p">>, <<"a", "p", "p", "-", "2">>,
              <<"d", "e", "f">>, <<"w", "e", "b">> }

\* sub in text, for two strings
Within(sub, text) ==
    \E i \in 0..(Len(text) - Len(sub)) : SubSeq(text, i + 1, i + Len(sub)) = sub

\* the stdout of workspace list, as the set of its lines: a marker for the
\* selected workspace or two blanks, and the name
ListOutput(exist, selected) ==
    { (IF w = selected THEN <<"*", " ">> ELSE <<" ", " ">>) \o w : w \in exist }

\* line 197: workspace_exists = deployment_name in stdout
WorkspaceExists(deployment_name, stdout) ==
    \E line \in stdout : Within(deployment_name, line)

\* a call of apply(deployment_name, config) at its workspace step, with the
\* workspaces the engine has; cmds holds the engine commands run
IdleWsl(name, exist) ==
    [pc |-> "list", name |-> name, exist |-> exist, found |-> exist,
     selected |-> DefaultName, workspace_exists |-> FALSE, cmds |-> <<>>,
     error |-> <<>>]
OtherThanWsl == <<db, flow, del, varfile, tfstate, pve, allocIn, allocOut,
                  others, later, addr, inflight>>

\* lines 196-197: workspace list; its return code is not read, and a list
\* that fails prints nothing on stdout
WslList ==
    /\ wsl.pc = "list"
    /\ \E code \in ReturnCodes :
          LET stdout == IF code = 0 THEN ListOutput(wsl.exist, wsl.selected) ELSE {}
          IN  wsl' = [wsl EXCEPT !.pc = "choose",
                         !.workspace_exists = WorkspaceExists(wsl.name, stdout),
                         !.cmds = Append(@, [cmd |-> "workspace list", code |-> code])]
    /\ UNCHANGED OtherThanWsl

\* lines 199-204: workspace new; the engine creates and selects a workspace
\* that does not exist and refuses one that does
WslNew ==
    /\ wsl.pc = "choose"
    /\ ~wsl.workspace_exists
    /\ \E code \in ReturnCodes :
          /\ code = 0 => wsl.name \notin wsl.exist
          /\ IF code # 0
             THEN wsl' = [wsl EXCEPT !.pc = "raised",
                             !.cmds = Append(@, [cmd |-> "workspace new", code |-> code]),
                             !.error = <<"Failed to create workspace">>]
             ELSE wsl' = [wsl EXCEPT !.pc = "varfile",
                             !.cmds = Append(@, [cmd |-> "workspace new", code |-> code]),
                             !.exist = @ \cup {wsl.name},
                             !.selected = wsl.name]
    /\ UNCHANGED OtherThanWsl

\* lines 205-210: workspace select; the engine selects a workspace that
\* exists and fails for one that does not
WslSelect ==
    /\ wsl.pc = "choose"
    /\ wsl.workspace_exists
    /\ \E code \in ReturnCodes :
          /\ code = 0 => wsl.name \in wsl.exist
          /\ IF code # 0
             THEN wsl' = [wsl EXCEPT !.pc = "raised",
                             !.cmds = Append(@, [cmd |-> "workspace select", code |-> code]),
                             !.error = <<"Failed to select workspace">>]
             ELSE wsl' = [wsl EXCEPT !.pc = "varfile",
                             !.cmds = Append(@, [cmd |-> "workspace select", code |-> code]),
                             !.selected = wsl.name]
    /\ UNCHANGED OtherThanWsl

-----------------------------------------------------------------------------
(* The keypair as the requests in flight use it: generate_config reads the
   public half into the configuration (lines 111-116) and deploy_application
   reads the private half for the SSH session (lines 400-402), each after a
   call of _ensure_ssh_keypair *)

\* a request before generate_config; public and private are the keys whose
\* halves it has read
IdleInflight == [pc |-> "generate_config", public |-> NoKey, private |-> NoKey]
OtherThanInflight == <<db, flow, del, varfile, tfstate, pve, allocIn, allocOut,
                       others, wait, dst, store, parsed, stages, addr, wsl>>

\* lines 111 and 400: the request calls _ensure_ssh_keypair, first in
\* generate_config and then in deploy_application
InflightEnsure(c) ==
    /\ \/ inflight[c].pc = "generate_config" /\ keys.call[c].calls = 0
       \/ inflight[c].pc = "deploy_application" /\ keys.call[c].calls = 1
    /\ KeyCheck(c)

\* lines 114-116: the public half is read from id_rsa.pub into tf_vars
InflightReadPublic(c) ==
    /\ inflight[c].pc = "generate_config"
    /\ keys.call[c].pc = "idle" /\ keys.call[c].calls = 1
    /\ inflight' = [inflight EXCEPT ![c].public = keys.public,
                                    ![c].pc = "deploy_application"]
    /\ UNCHANGED <<keys, OtherThanInflight>>

\* lines 401-402: the private half is read from id_rsa for the SSH session
InflightReadPrivate(c) ==
    /\ inflight[c].pc = "deploy_application"
    /\ keys.call[c].pc = "idle" /\ keys.call[c].calls = 2
    /\ inflight' = [inflight EXCEPT ![c].private = keys.private, ![c].pc = "connected"]
    /\ UNCHANGED <<keys, OtherThanInflight>>

-----------------------------------------------------------------------------
(* Specifications *)

\* a component that is not exercised
Unused == "unused"

OthersInit ==
    /\ race = Unused
    /\ ws = Unused
    /\ plan = Unused
    /\ resolver = Unused
    /\ ssh = Unused
    /\ build = Unused
    /\ san = Unused

FinalInit ==
    /\ addr = Unused
    /\ wsl = Unused
    /\ inflight = Unused

LaterInit ==
    /\ wait = Unused
    /\ dst = Unused
    /\ keys = Unused
    /\ store = Unused
    /\ parsed = Unused
    /\ stages = Unused

OrchInit ==
    /\ db = <<>>
    /\ flow = [f \in Flows |-> IdleFlow]
    /\ del = [r \in Deleters |-> IdleDelete]
    /\ varfile = {}
    /\ tfstate = [n \in Names |-> NoVmId]
    /\ pve = {}

\* the allocator is not exercised on its own
AllocIdle ==
    /\ allocIn = [db |-> {}, deleted |-> {}, qemu |-> {}, lxc |-> {}, mode |-> "ok"]
    /\ allocOut = NotCalled

Init ==
    /\ OrchInit
    /\ OthersInit
    /\ LaterInit
    /\ AllocIdle
    /\ FinalInit

Next ==
    \/ \E f \in Flows : DeployRequest(f)
    \/ \E f \in Flows : FlowGenerateConfig(f)
    \/ \E f \in Flows : FlowApplyInvoke(f)
    \/ \E f \in Flows : FlowApplyFinish(f)
    \/ \E f \in Flows : FlowAfterApply(f)
    \/ \E f \in Flows : FlowDeployApplication(f)
    \/ \E f \in Flows : FlowAfterDeploy(f)
    \/ \E f \in Flows : FlowExceptHandler(f)
    \/ \E f \in Flows : FlowReturn(f)
    \/ \E r \in Deleters : DeleteRequest(r)
    \/ \E r \in Deleters : DeleteRespond(r)
    \/ \E r \in Deleters : DeleteReturn(r)
    \/ SyncProxmoxResources
    \/ ExternalCreate

Spec == Init /\ [][Next]_vars

\* the allocator on its own, over the used sets of UsedFamily and NodeFamily
InitAlloc == OrchInit /\ OthersInit /\ LaterInit /\ FinalInit /\ AllocInit
NextAlloc == AllocCall
SpecAlloc == InitAlloc /\ [][NextAlloc]_vars

\* two deploy requests at the same time, on an empty table and an empty node
InitRace ==
    /\ OrchInit
    /\ AllocIdle
    /\ FinalInit
    /\ race = [f \in Racers |-> IdleRacer]
    /\ ws = Unused /\ plan = Unused /\ resolver = Unused
    /\ ssh = Unused /\ build = Unused /\ san = Unused
    /\ LaterInit
NextRace ==
    \/ \E f \in Racers : RaceRequest(f)
    \/ \E f \in Racers : RaceGenerateConfig(f)
    \/ \E f \in Racers : RaceApply(f)
    \/ \E f \in Racers : RaceRecord(f)
SpecRace == InitRace /\ [][NextRace]_vars

\* an apply for app-a next to an apply or a destroy for app-b, whose
\* workspace exists when it is to be destroyed
InitWs ==
    /\ OrchInit
    /\ AllocIdle
    /\ FinalInit
    /\ \E op \in {"apply", "destroy"} :
          ws = [selected |-> DefaultWorkspace,
                exist |-> {DefaultWorkspace} \cup (IF op = "destroy" THEN {"app-b"} ELSE {}),
                call |-> [c \in WsCalls |-> IF c = "c1" THEN WsCall("apply", "app-a")
                                            ELSE WsCall(op, "app-b")]]
    /\ race = Unused /\ plan = Unused /\ resolver = Unused
    /\ ssh = Unused /\ build = Unused /\ san = Unused
    /\ LaterInit
NextWs ==
    \/ \E c \in WsCalls : WsSelect(c)
    \/ \E c \in WsCalls : WsPlan(c)
    \/ \E c \in WsCalls : WsApply(c)
    \/ \E c \in WsCalls : WsDestroy(c)
    \/ \E c \in WsCalls : WsSelectDefault(c)
    \/ \E c \in WsCalls : WsDelete(c)
SpecWs == InitWs /\ [][NextWs]_vars

\* the plan phase of one call of apply
InitPlan ==
    /\ OrchInit
    /\ AllocIdle
    /\ FinalInit
    /\ plan \in { IdlePlan(dtype) : dtype \in {"vm", "lxc"} }
    /\ race = Unused /\ ws = Unused /\ resolver = Unused
    /\ ssh = Unused /\ build = Unused /\ san = Unused
    /\ LaterInit
NextPlan == PlanFirst \/ PlanStateRm \/ PlanRetry
SpecPlan == InitPlan /\ [][NextPlan]_vars

\* one call of the resolver
InitResolver ==
    /\ OrchInit
    /\ AllocIdle
    /\ FinalInit
    /\ resolver \in { IdleResolver(dtype, ready_at) :
                        dtype \in {"vm", "lxc"}, ready_at \in 1..(MaxRetries + 1) }
    /\ race = Unused /\ ws = Unused /\ plan = Unused
    /\ ssh = Unused /\ build = Unused /\ san = Unused
    /\ LaterInit
NextResolver == ResolverAttempt
SpecResolver == InitResolver /\ [][NextResolver]_vars

\* one call of the remote executor, with a list of 1..MaxCommands commands
InitSsh ==
    /\ OrchInit
    /\ AllocIdle
    /\ FinalInit
    /\ ssh \in { IdleSsh(n) : n \in 1..MaxCommands }
    /\ race = Unused /\ ws = Unused /\ plan = Unused
    /\ resolver = Unused /\ build = Unused /\ san = Unused
    /\ LaterInit
\* one call that builds a command sequence, for every choice of its arguments
InitBuild ==
    /\ OrchInit
    /\ AllocIdle
    /\ FinalInit
    /\ build \in { IdleBuild(f, u, e) : f \in FrameworkStrings, u \in GithubUrls, e \in EnvMaps }
    /\ race = Unused /\ ws = Unused /\ plan = Unused
    /\ resolver = Unused /\ ssh = Unused /\ san = Unused
    /\ LaterInit
NextBuild == DeployBuild
SpecBuild == InitBuild /\ [][NextBuild]_vars

\* a sanitization applied to a name and then to its own result
InitSan ==
    /\ OrchInit
    /\ AllocIdle
    /\ FinalInit
    /\ san \in { IdleSan(fn, name) : fn \in SanFns, name \in NameInputs }
    /\ race = Unused /\ ws = Unused /\ plan = Unused
    /\ resolver = Unused /\ ssh = Unused /\ build = Unused
    /\ LaterInit
NextSan == GenerateConfigHostname \/ SanitizeNameCall
SpecSan == InitSan /\ [][NextSan]_vars

\* one flow from the creation of its instance on; every step of the program is
\* taken when it can be, the lock is released or not as the instance decides
InitWait ==
    /\ OrchInit
    /\ AllocIdle
    /\ FinalInit
    /\ OthersInit
    /\ wait \in { IdleWait(dtype, lock) : dtype \in {"vm", "lxc"}, lock \in {"free", "held"} }
    /\ dst = Unused /\ keys = Unused /\ store = Unused
    /\ parsed = Unused /\ stages = Unused
NextWait ==
    WaitAddress \/ WaitSsh \/ WaitLock \/ WaitSleep \/ LockRelease \/ WaitCommands
SpecWait ==
    /\ InitWait
    /\ [][NextWait]_vars
    /\ WF_vars(WaitAddress)
    /\ WF_vars(WaitSsh)
    /\ WF_vars(WaitLock)
    /\ WF_vars(WaitSleep)
    /\ WF_vars(WaitCommands)

\* one call of destroy, on state directories with or without their variable
\* file and workspaces that exist or not
InitDst ==
    /\ OrchInit
    /\ AllocIdle
    /\ FinalInit
    /\ OthersInit
    /\ \E name \in DstNames, dirs \in SUBSET DstNames, exist \in SUBSET DstNames :
       \E varfiles \in SUBSET dirs :
          dst = IdleDst(name, DstWorld(varfiles, dirs, exist \cup {DefaultWorkspace}))
    /\ wait = Unused /\ keys = Unused /\ store = Unused
    /\ parsed = Unused /\ stages = Unused
NextDst ==
    \/ DstCheck \/ DstSelect \/ DstDestroy \/ DstSelectDefault \/ DstDelete \/ DstRmtree
    \/ DstAgain
SpecDst == InitDst /\ [][NextDst]_vars

\* two requests that ensure the keypair, on a directory that holds both
\* halves, one of them or none
InitKeys ==
    /\ OrchInit
    /\ AllocIdle
    /\ FinalInit
    /\ OthersInit
    /\ keys \in { IdleKeys(private, public) : private \in {NoKey, 1}, public \in {NoKey, 1} }
    /\ wait = Unused /\ dst = Unused /\ store = Unused
    /\ parsed = Unused /\ stages = Unused
NextKeys ==
    \/ \E c \in KeyCallers : KeyCheck(c)
    \/ \E c \in KeyCallers : KeyWritePrivate(c)
    \/ \E c \in KeyCallers : KeyWritePublic(c)
    \/ \E c \in KeyCallers : KeyReturn(c)
SpecKeys == InitKeys /\ [][NextKeys]_vars

\* one session on an empty table
InitStore ==
    /\ OrchInit
    /\ AllocIdle
    /\ FinalInit
    /\ OthersInit
    /\ store = [table |-> {}, objs |-> <<>>]
    /\ wait = Unused /\ dst = Unused /\ keys = Unused
    /\ parsed = Unused /\ stages = Unused
NextStore == Construct \/ Save
SpecStore == InitStore /\ [][NextStore]_vars

\* one call of parse_github_url, for every URL of the form
InitParsed ==
    /\ OrchInit
    /\ AllocIdle
    /\ FinalInit
    /\ OthersInit
    /\ parsed \in { IdleParsed(o, r, x) : o \in UrlOwners, r \in UrlRepos, x \in UrlSuffixes }
    /\ wait = Unused /\ dst = Unused /\ keys = Unused
    /\ store = Unused /\ stages = Unused
NextParsed == ParseCall
SpecParsed == InitParsed /\ [][NextParsed]_vars

\* one call of apply, for a workspace that exists or not
InitStages ==
    /\ OrchInit
    /\ AllocIdle
    /\ FinalInit
    /\ OthersInit
    /\ stages \in { IdleStages(dtype, e) : dtype \in {"vm", "lxc"}, e \in BOOLEAN }
    /\ wait = Unused /\ dst = Unused /\ keys = Unused
    /\ store = Unused /\ parsed = Unused
NextStages ==
    \/ StageInit \/ StageWorkspace \/ StageVarFile \/ StagePlan
    \/ StageRetryPlan \/ StageApply \/ StageOutput
SpecStages == InitStages /\ [][NextStages]_vars

NextSsh == SshConnect \/ SshExec \/ SshFinish
SpecSsh == InitSsh /\ [][NextSsh]_vars

\* one call of apply after the engine's apply, for every value of the output
\* and every address the node reports
InitAddr ==
    /\ OrchInit
    /\ AllocIdle
    /\ OthersInit
    /\ LaterInit
    /\ addr \in { IdleAddr(dtype, ok, output, node) :
                    dtype \in {"vm", "lxc"}, ok \in BOOLEAN,
                    output \in OutputValues, node \in NodeAddresses }
    /\ wsl = Unused /\ inflight = Unused
NextAddr == AddrOutput \/ AddrResolve
SpecAddr == InitAddr /\ [][NextAddr]_vars

\* one call of apply at its workspace step, for every name and every set of
\* workspaces of other deployments next to the default one
InitWsl ==
    /\ OrchInit
    /\ AllocIdle
    /\ OthersInit
    /\ LaterInit
    /\ wsl \in { IdleWsl(name, exist \cup {DefaultName}) :
                   name \in WslNames, exist \in SUBSET WslNames }
    /\ addr = Unused /\ inflight = Unused
NextWsl == WslList \/ WslNew \/ WslSelect
SpecWsl == InitWsl /\ [][NextWsl]_vars

\* deploy requests, delete requests and syncs on a table of at most MaxRows
\* rows: a name can be deployed again after its first deployment, and a sync
\* can import an instance next to the row of the request that created it
NextReuse ==
    \/ \E f \in Flows : DeployRequestWithin(f, MaxRows)
    \/ \E f \in Flows : FlowGenerateConfig(f)
    \/ \E f \in Flows : FlowApplyInvoke(f)
    \/ \E f \in Flows : FlowApplyFinish(f)
    \/ \E f \in Flows : FlowAfterApply(f)
    \/ \E f \in Flows : FlowDeployApplication(f)
    \/ \E f \in Flows : FlowAfterDeploy(f)
    \/ \E f \in Flows : FlowExceptHandler(f)
    \/ \E f \in Flows : FlowReturn(f)
    \/ \E r \in Deleters : DeleteRequestWithin(r, MaxRows)
    \/ \E r \in Deleters : DeleteRespond(r)
    \/ \E r \in Deleters : DeleteReturn(r)
    \/ SyncWithin(MaxRows)
SpecReuse == Init /\ [][NextReuse]_vars

\* two requests in flight, on a directory that holds both halves of the
\* keypair, one of them or none
InitInflight ==
    /\ OrchInit
    /\ AllocIdle
    /\ OthersInit
    /\ keys \in { IdleKeys(private, public) : private \in {NoKey, 1}, public \in {NoKey, 1} }
    /\ inflight = [c \in KeyCallers |-> IdleInflight]
    /\ wait = Unused /\ dst = Unused /\ store = Unused
    /\ parsed = Unused /\ stages = Unused
    /\ addr = Unused /\ wsl = Unused
NextInflight ==
    \/ \E c \in KeyCallers : InflightEnsure(c)
    \/ \E c \in KeyCallers : KeyWritePrivate(c)
    \/ \E c \in KeyCallers : KeyWritePublic(c)
    \/ \E c \in KeyCallers : KeyReturn(c)
    \/ \E c \in KeyCallers : InflightReadPublic(c)
    \/ \E c \in KeyCallers : InflightReadPrivate(c)
SpecInflight == InitInflight /\ [][NextInflight]_vars

-----------------------------------------------------------------------------
(* The deploy flow's properties, under Spec *)

\* the status a request committed last
LastCommitted(trace) ==
    LET commits == { k \in DOMAIN trace : trace[k] \in DeploymentStatus }
    IN  IF commits = {} THEN None
        ELSE trace[CHOOSE k \in commits : \A j \in commits : j <= k]

\* PENDING -> PROVISIONING -> DEPLOYING -> RUNNING, and the three to FAILED
FlowEdges ==
    { <<"pending", "provisioning">>, <<"provisioning", "deploying">>,
      <<"deploying", "running">>,
      <<"pending", "failed">>, <<"provisioning", "failed">>, <<"deploying", "failed">> }

C2_PersistBeforeInvoke ==
    \A f \in Flows :
        LET t == flow[f].trace
            id == flow[f].rec
        IN  /\ Has(t, "generate_config") =>
                  Pos(t, "pending") = 1 /\ Pos(t, "generate_config") = 2
            /\ Has(t, "apply") =>
                  Pos(t, "provisioning") > 0 /\ Pos(t, "provisioning") < Pos(t, "apply")
            /\ Has(t, "deploy_application") =>
                  Pos(t, "deploying") > 0 /\ Pos(t, "deploying") < Pos(t, "deploy_application")
            /\ Has(t, "running") =>
                  /\ Pos(t, "deploy_application") > 0
                  /\ Pos(t, "deploy_application") < Pos(t, "running")
                  /\ flow[f].deploy_result.success
            \* what the table holds when the operation is invoked
            /\ flow[f].pc = "pending" =>
                  id \in DOMAIN db /\ db[id].status \in {"pending", "deleted"}
            /\ flow[f].pc \in {"provisioning", "applying"} =>
                  db[id].status \in {"provisioning", "deleted"}
            /\ flow[f].pc \in {"deploying", "deployed"} =>
                  /\ db[id].status \in {"deploying", "deleted"}
                  /\ db[id].ip_address = flow[f].result.ip_address
                  /\ db[id].ip_address # None
                  /\ db[id].vm_id = flow[f].result.vm_id

\* deploy_application is about to be invoked, on a row that is persisted
\* DEPLOYING with its address and its id
C2_Witness ==
    \E f \in Flows :
        /\ flow[f].pc = "deploying"
        /\ db[flow[f].rec].status = DEPLOYING
        /\ db[flow[f].rec].ip_address = Address
        /\ db[flow[f].rec].vm_id = flow[f].vm_id

\* apply was invoked by the request, returned, and reported failure
ApplyFailed(fl) == Has(fl.trace, "apply") /\ fl.pc # "applying" /\ ~fl.result.success

\* C3: when apply reports failure the request ends with its row FAILED and a
\* non-null error message, deploy_application is never invoked for it and
\* neither DEPLOYING nor RUNNING is ever committed for it
C3_ApplyFailure ==
    [][ \A f \in Flows :
           ApplyFailed(flow[f]) =>
              /\ ~Has(flow[f].trace, "deploy_application")
              /\ ~Has(flow[f].trace, "deploying")
              /\ ~Has(flow[f].trace, "running")
              /\ flow[f].pc \in {"applied", "raised", "done"}
              /\ (flow[f].pc # "done" /\ flow'[f].pc = "done") =>
                    /\ db'[flow[f].rec].status = "failed"
                    /\ db'[flow[f].rec].error_message # <<>>
                    /\ db'[flow[f].rec].deployed_at = None
                    /\ ~flow'[f].resp.success
              /\ flow[f].pc = "done" => flow'[f] \in {flow[f], IdleFlow}
      ]_vars

\* a request whose apply failed after the instance was created has ended
C3_Witness ==
    \E f \in Flows :
        /\ flow[f].pc = "done"
        /\ flow[f].result.error = <<"Could not retrieve IP address">>
        /\ db[flow[f].rec].status = FAILED
        /\ db[flow[f].rec].error_message =
              <<"Infrastructure provisioning failed: ", "Could not retrieve IP address">>

\* C4: a request invokes apply at most once and deploy_application at most
\* once, a failure is followed by the handler and the end of the request, and
\* no step of the flow invokes destroy or undoes what the engine has done
C4_NoRetryNoRollback ==
    [][ \A f \in Flows :
           /\ Count(flow[f].trace, "apply") <= 1
           /\ Count(flow[f].trace, "deploy_application") <= 1
           /\ ~Has(flow[f].trace, "destroy")
           /\ flow[f].pc = "raised" => flow'[f].pc \in {"raised", "done"}
           /\ flow' # flow =>
                 /\ varfile \subseteq varfile'
                 /\ \A n \in Names : tfstate[n] # NoVmId => tfstate'[n] # NoVmId
      ]_vars

\* a request failed in deploy_application, after one apply that succeeded,
\* and ended; the instance of its workspace is still on the node
C4_Witness ==
    \E f \in Flows :
        /\ flow[f].pc = "done"
        /\ flow[f].result.success
        /\ ~flow[f].deploy_result.success
        /\ Count(flow[f].trace, "apply") = 1
        /\ Count(flow[f].trace, "deploy_application") = 1
        /\ tfstate[flow[f].name] \in PveIds

-----------------------------------------------------------------------------
(* Deletion's properties, under Spec *)

\* C5: a row becomes DELETED, and its deleted_at is set, only in the step of a
\* delete request on it whose destroy returned success; when destroy reports
\* failure the table is left as it is and the error is answered
C5_DeleteAfterDestroy ==
    [][ /\ \A id \in DOMAIN db :
              \/ db'[id].status = "deleted" /\ db[id].status # "deleted"
              \/ db'[id].deleted_at # db[id].deleted_at
              => \E r \in Deleters :
                    /\ del[r].pc = "destroyed" /\ del'[r].pc = "done"
                    /\ del[r].target = id
                    /\ del[r].result.success
                    /\ db'[id].status = "deleted"
                    /\ db'[id].deleted_at = UtcNow
        /\ \A r \in Deleters :
              (del[r].pc = "destroyed" /\ del'[r].pc = "done" /\ ~del[r].result.success) =>
                 /\ db' = db
                 /\ ~del'[r].resp.success
                 /\ del[r].result.error # <<>>
                 /\ Tail(del'[r].resp.error) = del[r].result.error
      ]_vars

\* a delete request whose destroy succeeded has marked its row
C5_Witness ==
    \E r \in Deleters :
        /\ del[r].pc = "done"
        /\ del[r].result.success
        /\ del[r].resp.success
        /\ db[del[r].target].status = DELETED
        /\ db[del[r].target].deleted_at = UtcNow

\* the errors of destroy that come from a command of the engine
EngineErrors == { <<"Failed to select workspace">>, <<"Terraform destroy failed">> }

\* C6: a delete request on a row that no deploy request is working on, when
\* no command of the engine fails, ends with the row DELETED, whatever the
\* row's status and history
C6_DeleteReachesDeleted ==
    [][ \A r \in Deleters :
           (/\ del[r].pc = "destroyed" /\ del'[r].pc = "done"
            /\ \A f \in Flows : flow[f].rec # del[r].target
            /\ del[r].result.error \notin EngineErrors) =>
              db'[del[r].target].status = "deleted"
      ]_vars

\* C7: a row that is DELETED stays DELETED, and no row is ever removed
C7_DeletedIsTerminal ==
    [][ /\ Len(db') >= Len(db)
        /\ \A id \in DOMAIN db :
              db[id].status = "deleted" => db'[id].status = "deleted"
      ]_vars

-----------------------------------------------------------------------------
(* Concurrent allocation, under SpecRace *)

\* C21: the step that completes a deploy flow with success answers a
\* deployment dictionary with status "running", a non-null ip_address and an
\* access_url on the declared port of the framework (5000 for flask), and
\* the row's own dictionary has status "running" and a non-null ip_address
C21_SuccessfulDeployment ==
    [][\A f \in Flows :
          (flow[f].pc = "deployed" /\ flow'[f].pc = "done") =>
              LET d == flow'[f].resp.deployment
                  row == db'[flow[f].rec]
              IN  /\ flow'[f].resp.success
                  /\ d.status = "running"
                  /\ d.ip_address # None
                  /\ Len(d.access_url) = 4
                  /\ d.access_url[2] = d.ip_address
                  /\ d.access_url[4] = SUPPORTED_FRAMEWORKS[flow[f].framework].port
                  /\ flow[f].framework = "flask" => d.access_url[4] = 5000
                  /\ row.status = "running"
                  /\ row.ip_address # None]_vars

\* a flask deployment was answered with its URL on port 5000
C21_Witness ==
    \E f \in Flows :
        /\ flow[f].pc = "done"
        /\ flow[f].resp.success
        /\ flow[f].framework = "flask"
        /\ flow[f].resp.deployment.access_url = <<"http://", Address, ":", 5000>>
        /\ ToDict(flow[f].rec).ip_address = Address

\* text occurs in whole, contiguously, inside of
OccursIn(text, whole) ==
    \E k \in 0..(Len(whole) - Len(text)) :
        \A j \in DOMAIN text : whole[k + j] = text[j]

\* the error of the component that failed a flow: apply's, else
\* deploy_application's, else the exception generate_config raised
OriginError(fl) ==
    IF fl.result.error # <<>> THEN fl.result.error
    ELSE IF fl.deploy_result.error # <<>> THEN fl.deploy_result.error
    ELSE fl.exc

C38_RejectedBeforeSideEffects ==
    [][\A f \in Flows :
          (flow[f].pc = "idle" /\ flow'[f].pc # "idle") =>
              IF flow'[f].resp.code = 400
              THEN /\ flow'[f].pc = "done"
                   /\ db' = db
                   /\ varfile' = varfile /\ tfstate' = tfstate /\ pve' = pve
                   /\ flow'[f].rec = 0
                   /\ flow'[f].vm_id = NoVmId
                   /\ flow'[f].trace = <<>>
              ELSE /\ Len(db') = Len(db) + 1
                   /\ flow'[f].rec = Len(db')
                   /\ db'[Len(db')].status = "pending"
                   /\ db'[Len(db')].deployment_type \in {"vm", "lxc"}
                   /\ db'[Len(db')].name \notin {"", "ab"}
                   /\ db'[Len(db')].github_url = RepoUrl
                   /\ flow'[f].framework \in DOMAIN SUPPORTED_FRAMEWORKS]_vars

\* a request was answered 400 next to the row of an earlier request, which
\* it left as it was
C38_Witness ==
    \E f \in Flows :
        /\ flow[f].pc = "done"
        /\ flow[f].resp.code = 400
        /\ flow[f].resp.error = <<"validation errors">>
        /\ flow[f].trace = <<>>
        /\ Len(db) = 1

\* C11: two deploy requests served at the same time are never handed the
\* same vm_id by generate_config
C11_DistinctIds ==
    \A f \in Racers, g \in Racers :
        (f # g /\ race[f].vm_id # NoVmId /\ race[g].vm_id # NoVmId) =>
            race[f].vm_id # race[g].vm_id

-----------------------------------------------------------------------------
(* Workspace isolation, under SpecWs *)

\* C12: every plan, apply and destroy command of a call runs against the
\* workspace named after the call's own deployment
C12_OwnWorkspace ==
    \A c \in WsCalls :
        \A k \in DOMAIN ws.call[c].ran :
            ws.call[c].ran[k].workspace = ws.call[c].name

-----------------------------------------------------------------------------
(* Drift recovery, under SpecPlan *)

\* C13: when the plan phase is over, either the first plan failed hard with
\* an error text holding both "vm" and "not found", and then the commands
\* were the plan, the removal of the deployment's resource from the state
\* and one more plan, whose hard failure is raised; or the commands were the
\* one plan, whose hard failure is raised
C13_OneRetryOnDrift ==
    plan.pc \in {"planned", "failed"} =>
        LET matches == /\ \E k \in DOMAIN plan.error_msg : plan.error_msg[k] = "vm"
                       /\ \E k \in DOMAIN plan.error_msg : plan.error_msg[k] = "not found"
            removal == IF plan.deployment_type = "lxc"
                       THEN "state rm proxmox_lxc.deployment_lxc[0]"
                       ELSE "state rm proxmox_vm_qemu.deployment_vm[0]"
        IN  IF plan.code = 1 /\ matches
            THEN /\ plan.cmds = <<"plan", removal, "plan">>
                 /\ plan.pc = "failed" <=> plan.retry_code = 1
            ELSE /\ plan.cmds = <<"plan">>
                 /\ plan.pc = "failed" <=> plan.code = 1

\* the plan failed on drift, the resource was removed, and the one retry
\* failed too
C13_Witness ==
    /\ plan.pc = "failed"
    /\ plan.error = <<"Terraform plan failed after retry">>
    /\ Len(plan.cmds) = 3

-----------------------------------------------------------------------------
(* The address resolver's properties, under SpecResolver *)

\* C14: the resolver makes one query per attempt and goes on after every
\* result that is not a usable address; it returns the address with exactly k
\* queries made when the k-th result is the first usable one, and it fails
\* only when none of the 10 attempts gave one, after exactly 10 queries
C14_ResolverQueries ==
    /\ resolver.queries <= 10
    /\ resolver.pc = "polling" =>
          resolver.queries < resolver.ready_at /\ resolver.queries < 10
    /\ resolver.pc = "returned" =>
          /\ resolver.queries = resolver.ready_at
          /\ resolver.ip = Address
    /\ resolver.pc = "failed" =>
          /\ resolver.ready_at > 10
          /\ resolver.queries = 10
          /\ resolver.error # <<>>

\* three results that are not usable and then an address: four queries
C14_Witness ==
    /\ resolver.pc = "returned"
    /\ resolver.ready_at = 4
    /\ resolver.queries = 4

-----------------------------------------------------------------------------
(* The waits' property, under SpecWait *)

\* C23: every wait has a budget, so a deploy flow always ends, in RUNNING or
\* in FAILED
C23_FlowTerminates ==
    <>(wait.pc = "done" /\ wait.status \in {RUNNING, FAILED})

-----------------------------------------------------------------------------
(* destroy's properties, under SpecDst *)

\* C24: destroy for a deployment without variable file fails with "No
\* Terraform state found", having run no engine command and changed no
\* workspace and no state directory
C24_NoStateFound ==
    (dst.pc = "done" /\ dst.name \notin dst.found.varfiles) =>
        /\ ~dst.result.success
        /\ dst.result.error = <<"No Terraform state found">>
        /\ dst.cmds = <<>>
        /\ dst.world = dst.found

\* such a call ended, for a deployment whose workspace and state directory exist
C24_Witness ==
    /\ dst.pc = "done"
    /\ dst.name \notin dst.found.varfiles
    /\ dst.name \in dst.found.dirs
    /\ dst.name \in dst.found.exist
    /\ ~dst.result.success

\* C25: destroy reports success only if every engine command it ran exited 0,
\* and failure whenever one of them exited non-zero
C25_FailsOnAnyNonZero ==
    (dst.pc = "done" /\ dst.cmds # <<>>) =>
        (dst.result.success <=> \A k \in DOMAIN dst.cmds : dst.cmds[k].code = 0)

\* the engine commands of the call that ran before command k
DstBefore(k) == { dst.cmds[j] : j \in 1..(k - 1) }

\* C33: destroy deletes the workspace and removes the state directory only
\* after its destroy command exited 0; after a destroy command that failed the
\* variable file and the state directory are still there and a second call
\* gets past the test of the variable file; after a call that succeeded a
\* second call fails with "No Terraform state found"
C33_CleanupAfterDestroy ==
    /\ \A k \in DOMAIN dst.cmds :
          dst.cmds[k].cmd \in {"workspace select default", "workspace delete"} =>
             [cmd |-> "destroy", code |-> 0] \in DstBefore(k)
    /\ dst.world.dirs # dst.found.dirs =>
          \E k \in DOMAIN dst.cmds : dst.cmds[k] = [cmd |-> "destroy", code |-> 0]
    /\ (dst.pc = "done" /\ [cmd |-> "destroy", code |-> 1] \in DstBefore(Len(dst.cmds) + 1)) =>
          /\ ~dst.result.success
          /\ dst.world.varfiles = dst.found.varfiles
          /\ dst.world.dirs = dst.found.dirs
          /\ dst.world.exist = dst.found.exist
          /\ dst.name \in dst.world.varfiles
    /\ (dst.prior = "destroy_failed" /\ dst.pc = "done") =>
          dst.result # DstFail("No Terraform state found")
    /\ (dst.prior = "succeeded" /\ dst.pc = "done") =>
          /\ dst.result = DstFail("No Terraform state found")
          /\ dst.cmds = <<>>

\* a second call ended with "No Terraform state found" after a first call
\* that succeeded
C33_Witness ==
    /\ dst.prior = "succeeded"
    /\ dst.pc = "done"
    /\ dst.result = DstFail("No Terraform state found")
    /\ dst.name \notin dst.world.dirs

-----------------------------------------------------------------------------
(* The keypair's property, under SpecKeys *)

\* C26: when a call of _ensure_ssh_keypair returns, both halves exist and
\* belong to the same key, and a call that found both halves left them as
\* they were
C26_KeypairEnsured ==
    [][\A c \in KeyCallers :
          (keys.call[c].pc = "return" /\ keys'.call[c].pc = "idle") =>
              /\ keys.private # NoKey
              /\ keys.public # NoKey
              /\ keys.private = keys.public]_vars

-----------------------------------------------------------------------------
(* The record store's property, under SpecStore *)

\* C27: right after its construction a Deployment has an id, get_by_id of
\* that id returns it, and count_all is one greater than before
C27_ConstructionRegisters ==
    [][Len(store'.objs) = Len(store.objs) + 1 =>
          LET new == store'.objs[Len(store'.objs)]
          IN  /\ new.id # NoId
              /\ GetById(store'.table, new.id) = {[id |-> new.id, name |-> new.name]}
              /\ CountAll(store'.table) = CountAll(store.table) + 1]_vars

-----------------------------------------------------------------------------
(* apply's property, under SpecStages *)

\* the order of the stages, the drift repair left out
StageOrder == <<"init", "workspace", "varfile", "plan", "apply", "output">>
StageKind(r) == IF r.stage \in {"workspace new", "workspace select"} THEN "workspace"
                ELSE r.stage
\* a stage that failed: a plan that exited 1, any other that did not exit 0
StageFailed(r) == IF r.stage = "plan" THEN r.code = 1 ELSE r.code # 0
\* the stages run, without a hard-failed plan that was repaired and its repair
RECURSIVE WithoutRepair(_)
WithoutRepair(ran) ==
    IF ran = <<>> THEN <<>>
    ELSE IF Len(ran) >= 2 /\ ran[1].stage = "plan" /\ ran[2].stage = "state rm"
         THEN WithoutRepair(SubSeq(ran, 3, Len(ran)))
         ELSE <<ran[1]>> \o WithoutRepair(Tail(ran))

\* C30: apply runs init, workspace create-or-select, variable-file write,
\* plan, apply, output read in this order; a stage that failed is the last
\* one run; the engine's apply runs only after a last plan that exited 0 or
\* 2, and after each of them; success is returned only if apply exited 0
C30_StageOrder ==
    LET ran == stages.ran
        main == WithoutRepair(ran)
        applies == { k \in DOMAIN ran : ran[k].stage = "apply" }
    IN  /\ Len(main) <= Len(StageOrder)
        /\ \A k \in DOMAIN main : StageKind(main[k]) = StageOrder[k]
        /\ \A k \in DOMAIN main : StageFailed(main[k]) => (k = Len(main) /\ stages.pc = "done")
        /\ \A k \in applies : k > 1 /\ ran[k - 1].stage = "plan" /\ ran[k - 1].code \in {0, 2}
        /\ (ran # <<>> /\ ran[Len(ran)].stage = "plan" /\ ran[Len(ran)].code \in {0, 2})
              => stages.pc = "apply"
        /\ stages.result.success =>
              (stages.pc = "done" /\ \E k \in applies : ran[k].code = 0)

\* a call whose first plan hard-failed on drift, whose retry found changes
\* pending, and that ran apply and returned success
C30_Witness ==
    /\ stages.pc = "done"
    /\ stages.result.success
    /\ Len(stages.ran) = 8
    /\ stages.ran[4] = [stage |-> "plan", code |-> 1]
    /\ stages.ran[6] = [stage |-> "plan", code |-> 2]

-----------------------------------------------------------------------------
(* The remote executor's properties, under SpecSsh *)

\* C15: at most 30 connection attempts are made, none after one that
\* succeeded; the call fails with the connection error exactly when 30
\* attempts failed; a command is executed only after an attempt succeeded
C15_ConnectionBudget ==
    LET made == Len(ssh.tries)
    IN  /\ made <= 30
        /\ \A k \in 1..made : ssh.tries[k] => k = made
        /\ ssh.result.error = <<"SSH connection failed after 30 attempts">>
              <=> (made = 30 /\ \A k \in 1..made : ~ssh.tries[k])
        /\ ssh.ran # <<>> => (made >= 1 /\ ssh.tries[made])
        /\ ssh.pc = "commands" => (made >= 1 /\ ssh.tries[made])

\* the thirtieth attempt succeeded and a command was executed
C15_Witness ==
    /\ Len(ssh.tries) = 30
    /\ ssh.tries[30]
    /\ ssh.ran # <<>>

\* C16: the commands are executed in list order, each after all those before
\* it exited 0, none after one that exited non-zero; the call reports
\* success exactly when every command of the list was executed and exited 0
C16_SequentialCommands ==
    /\ \A j \in DOMAIN ssh.ran :
          /\ ssh.ran[j].idx = j - 1
          /\ j < Len(ssh.ran) => ssh.ran[j].exit_status = 0
    /\ Len(ssh.ran) <= ssh.n
    /\ ssh.pc = "done" =>
          (ssh.result.success <=>
              /\ Len(ssh.ran) = ssh.n
              /\ \A j \in DOMAIN ssh.ran : ssh.ran[j].exit_status = 0)
    /\ (ssh.pc = "done" /\ ~ssh.result.success /\ ssh.ran # <<>>) =>
          ssh.ran[Len(ssh.ran)].exit_status # 0

\* the second of three commands exited non-zero and the third never ran
C16_Witness ==
    /\ ssh.pc = "done"
    /\ ssh.n = 3
    /\ Len(ssh.ran) = 2
    /\ ssh.ran[2].exit_status = 127
    /\ ~ssh.result.success

-----------------------------------------------------------------------------
(* The builder's properties, under SpecBuild *)

\* the positions of the commands of a kind in a sequence
KindAt(commands, kind) == { i \in DOMAIN commands : commands[i].kind = kind }

\* C17: for a supported framework the sequence is: bootstrap, toolchain,
\* re-creation of the app directory, clone of the given URL, line-ending
\* normalization, a .env command iff env_vars is non-empty, one launch
\* command, the status probe; django has the python toolchain and its launch
\* binds the declared port 8000
C17_CommandOrder ==
    (build.pc # "idle" /\ build.framework \in DOMAIN SUPPORTED_FRAMEWORKS) =>
        LET c == build.commands
            n == Len(c)
            hasEnv == ~build.env_vars.none /\ Len(build.env_vars.items) > 0
        IN  /\ build.pc = "built"
            /\ n = IF hasEnv THEN 8 ELSE 7
            /\ c[1].kind = "bootstrap"
            /\ c[2].kind = "toolchain"
            /\ c[3].kind = "recreate"
            /\ c[4].kind = "clone" /\ c[4].github_url = build.github_url
            /\ c[5].kind = "dos2unix"
            /\ hasEnv <=> KindAt(c, "env") # {}
            /\ KindAt(c, "env") \subseteq {6}
            /\ KindAt(c, "launch") = {n - 1}
            /\ c[n].kind = "probe"
            /\ build.framework = "django" =>
                  (c[2].language = "python" /\ c[n - 1].bind = <<8000>>)

\* a django sequence built with a non-empty env map
C17_Witness ==
    /\ build.pc = "built"
    /\ build.framework = "django"
    /\ Len(build.env_vars.items) = 2
    /\ Len(build.commands) = 8

\* C18: for an unrecognized framework string the build does not fail: the
\* sequence is non-empty and ends in the generic launch recipe and the probe
C18_GenericFallback ==
    (build.pc # "idle" /\ build.framework \notin DOMAIN SUPPORTED_FRAMEWORKS) =>
        LET c == build.commands
            n == Len(c)
        IN  /\ build.pc = "built"
            /\ n >= 2
            /\ c[n - 1].kind = "launch" /\ c[n - 1].recipe = "generic"
            /\ c[n].kind = "probe"

\* C39: for every supported framework the launch command of the built
\* sequence binds the declared port of the framework, the port that the
\* access_url http://<address>:<port> of deploy_application names
C39_LaunchBindsDeclaredPort ==
    (build.pc = "built" /\ build.framework \in DOMAIN SUPPORTED_FRAMEWORKS) =>
        \E i \in DOMAIN build.commands :
            /\ build.commands[i].kind = "launch"
            /\ build.commands[i].recipe = build.framework
            /\ build.commands[i].bind = <<SUPPORTED_FRAMEWORKS[build.framework].port>>

-----------------------------------------------------------------------------
(* The sanitizations' properties, under SpecSan *)

\* C19: for a name with a space, an underscore or an uppercase letter, the
\* hostname of generate_config has only lowercase letters, digits and hyphens
C19_HostnameDnsSafe ==
    (/\ san.fn = "generate_config"
     /\ san.out # << >>
     /\ \E i \in DOMAIN san.name : san.name[i] \in {" ", "_"} \cup Range(Capitals)) =>
        \A i \in DOMAIN san.out[1] :
            san.out[1][i] \in Range(Letters) \cup Digits \cup {"-"}

\* C20: sanitizing a sanitized name returns it unchanged, for the hostname of
\* generate_config and for sanitize_name
C20_Idempotent ==
    Len(san.out) = 2 => san.out[2] = san.out[1]

\* sanitize_name applied twice to a name that the first call changed by a
\* replacement, a removal and a lowering
C20_Witness ==
    /\ san.fn = "sanitize_name"
    /\ san.name = <<"D", " ", ".">>
    /\ Len(san.out) = 2
    /\ san.out[1] = <<"d", "-">>

\* what becomes of one character: a space becomes a hyphen, a capital its
\* lowercase letter, a lowercase letter, digit, hyphen or underscore stays,
\* any other character goes
ImageOf(ch) ==
    IF ch = " " THEN <<"-">>
    ELSE IF \E i \in DOMAIN Capitals : Capitals[i] = ch
         THEN <<Letters[CHOOSE i \in DOMAIN Capitals : Capitals[i] = ch]>>
    ELSE IF ch \in Range(Letters) \cup Digits \cup {"-", "_"} THEN <<ch>>
    ELSE << >>
\* the images of the characters of a name, in the order of the name
RECURSIVE ImagesInOrder(_)
ImagesInOrder(name) ==
    IF name = << >> THEN << >>
    ELSE ImageOf(Head(name)) \o ImagesInOrder(Tail(name))

\* C28: sanitize_name returns a string over [a-z0-9_-]: each space became a
\* hyphen, the other characters outside letters, digits, hyphen and
\* underscore are gone, the letters are lowercase, the order is kept
C28_SanitizeName ==
    (san.fn = "sanitize_name" /\ san.out # << >>) =>
        /\ \A i \in DOMAIN san.out[1] :
              san.out[1][i] \in Range(Letters) \cup Digits \cup {"-", "_"}
        /\ san.out[1] = ImagesInOrder(san.name)

\* a name with a lowercase letter, a character that is removed and a capital
C28_Witness ==
    /\ san.fn = "sanitize_name"
    /\ san.name = <<"a", ".", "D">>
    /\ Len(san.out) = 1
    /\ san.out[1] = <<"a", "d">>

-----------------------------------------------------------------------------
(* parse_github_url's property, under SpecParsed *)

\* C29: for https://github.com/<owner>/<repo>, with or without ".git" and
\* trailing slashes after it, parse_github_url returns exactly <owner> and
\* <repo>
C29_OwnerAndRepo ==
    parsed.pc = "done" =>
        /\ parsed.out.owner = parsed.owner
        /\ parsed.out.repo = parsed.repo

-----------------------------------------------------------------------------
(* The allocator's properties, under SpecAlloc *)

\* what the allocator was given as used: the ids of the rows that are not
\* deleted and the ids of each listing of the node that answered
Reported(in) ==
    (IF in.mode \in {"ok", "lxc_fail"} THEN in.qemu ELSE {})
        \cup (IF in.mode \in {"ok", "qemu_fail"} THEN in.lxc ELSE {})
Returned == allocOut.via \in {"random", "sequential"}

\* C8: an identifier the allocator returns lies in 100..999 and is neither
\* the vm_id of a row that is not deleted nor a vmid the node reported
C8_InRangeAndUnused ==
    Returned =>
        /\ allocOut.vm_id >= 100 /\ allocOut.vm_id <= 999
        /\ allocOut.vm_id \notin allocIn.db
        /\ allocOut.vm_id \notin Reported(allocIn)

\* the allocator returned an id next to used ids of the table and of the
\* node, one of which a deleted row carries too
C8_Witness ==
    /\ Returned
    /\ allocIn.db = {MinVmId, MinVmId + 1}
    /\ allocIn.deleted = {MinVmId}
    /\ allocIn.mode = "ok" /\ allocIn.qemu # {} /\ allocIn.lxc # {}
    /\ allocOut.vm_id = MinVmId + 2

\* C9: the allocator ends with the exhaustion error exactly when every id of
\* 100..999 is used; when an id is free it returns a free one, and the scan
\* that follows the random attempts returns the lowest free id
C9_ExhaustedIffFull ==
    LET used == allocIn.db \cup Reported(allocIn)
        IsFree(v) == v \in 100..999 /\ v \notin used
        full == \A v \in 100..999 : v \in used
    IN  /\ allocOut = NotCalled =>
              GenerateVmId(UsedIds(GetUsedVmIds(AllocRows(allocIn)), allocIn),
                           RandInt(MinVmId, MaxVmId)) # {}
        /\ allocOut # NotCalled =>
              /\ allocOut.via \in {"random", "sequential", "exhausted"}
              /\ allocOut.via = "exhausted" <=> full
              /\ ~full => IsFree(allocOut.vm_id)
              /\ allocOut.via = "sequential" =>
                    \A w \in 100..999 : IsFree(w) => allocOut.vm_id <= w

\* the random attempts all hit used ids and the scan found the one free id,
\* the last of the range
C9_Witness ==
    /\ allocOut.via = "sequential"
    /\ allocOut.vm_id = MaxVmId
    /\ (VmIdRange \ {MaxVmId}) \subseteq allocIn.db

\* C10: when the query of the node fails (the connection, or a listing), the
\* allocator goes on with what it has: it still returns an id whenever the
\* table leaves one free in the range, and the id is none of the table's
C10_QueryFailureNotFatal ==
    (allocIn.mode # "ok" /\ allocOut # NotCalled) =>
        /\ allocOut.via = "exhausted" => (100..999) \ allocIn.db \subseteq Reported(allocIn)
        /\ allocIn.mode = "connect_fail" =>
              (allocOut.via = "exhausted" <=> (100..999) \subseteq allocIn.db)
        /\ Returned => allocOut.vm_id \notin allocIn.db

\* the connection failed, the node holds ids the table does not know, and an
\* id was returned that avoids the table's
C10_Witness ==
    /\ allocIn.mode = "connect_fail"
    /\ allocIn.qemu # {} /\ allocIn.lxc # {}
    /\ allocIn.db = {MinVmId}
    /\ Returned
    /\ allocOut.vm_id = MinVmId + 1

-----------------------------------------------------------------------------
(* The address of a successful apply, under SpecAddr *)

\* C31: after a successful engine apply the resolver is invoked exactly when
\* the address of the outputs is absent, empty or a sentinel; a successful
\* result of apply carries an address that is neither empty nor a sentinel,
\* and when the resolver fails apply returns a failure
C31_ResolverIffUnresolved ==
    addr.pc = "done" =>
        /\ addr.outputs_ok =>
              (addr.resolver # "not_called"
                 <=> addr.output \in {None, "", "Check Proxmox Console", "pending",
                                      "Pending (Check Dashboard)"})
        /\ addr.result.success =>
              addr.result.ip_address \notin {None, "", "Check Proxmox Console", "pending",
                                             "Pending (Check Dashboard)"}
        /\ addr.resolver = "raised" => ~addr.result.success

\* the output held a sentinel and the resolver gave the address of the result
C31_Witness ==
    /\ addr.pc = "done"
    /\ addr.output = "pending"
    /\ addr.resolver = "returned"
    /\ addr.result.success
    /\ addr.result.ip_address = Address

-----------------------------------------------------------------------------
(* The workspace step's property, under SpecWsl *)

\* C32: when its workspace list succeeded, apply runs workspace new exactly
\* when no workspace has the deployment's name and workspace select otherwise;
\* it never selects a workspace that does not exist
C32_CreateOrSelect ==
    (Len(wsl.cmds) = 2 /\ wsl.cmds[1].code = 0) =>
        wsl.cmds[2].cmd = IF wsl.name \in wsl.found THEN "workspace select"
                          ELSE "workspace new"

-----------------------------------------------------------------------------
(* The nullness of a row's fields, under SpecReuse *)

\* the rows a deploy request created
FlowCreated == { id \in DOMAIN db : db[id].github_url # ImportedUrl }

\* C34: in a row that a deploy request created, ip_address, vm_id, deployed_at
\* and deleted_at are null while the status is PENDING or PROVISIONING,
\* ip_address is set while it is DEPLOYING or RUNNING, and deployed_at is set
\* in RUNNING and only in a row that reached RUNNING
C34_NullnessByPhase ==
    \A id \in FlowCreated :
        /\ db[id].status \in {"pending", "provisioning"} =>
              /\ db[id].ip_address = None
              /\ db[id].vm_id = NoVmId
              /\ db[id].deployed_at = None
              /\ db[id].deleted_at = None
        /\ db[id].status \in {"deploying", "running"} => db[id].ip_address # None
        /\ db[id].status = "running" => db[id].deployed_at # None
        /\ db[id].deployed_at # None => db[id].status \in {"running", "deleted"}

-----------------------------------------------------------------------------
(* The keypair of a request in flight, under SpecInflight *)

\* C35: the private half a request uses to open its SSH session belongs to
\* the key whose public half the request put in its configuration
C35_SameKeypairInFlight ==
    \A c \in KeyCallers :
        inflight[c].pc = "connected" => inflight[c].private = inflight[c].public

-----------------------------------------------------------------------------
(* The uniqueness of vm_id, under SpecReuse *)

\* C36: no two rows that are not deleted carry the same vm_id
C36_UniqueVmId ==
    \A i \in DOMAIN db, j \in DOMAIN db :
        (/\ i # j
         /\ db[i].status # "deleted" /\ db[j].status # "deleted"
         /\ db[i].vm_id # NoVmId) =>
            db[i].vm_id # db[j].vm_id

====
